---- MODULE Spec2Model ----
(***************************************************************************)
(* A model of codegraph's graph store (storage/sqlite.rs), graph builder   *)
(* (core/graph.rs) and query engine (core/query.rs).                       *)
(*                                                                         *)
(* The store is the four SQLite tables of init_schema.  A table is a set   *)
(* of rows, a row is a record with the columns of the table.  An           *)
(* Option<T> result is a set with at most one element, a Result<T> is a    *)
(* record with an ok flag.  Every store operation is an operator from a    *)
(* store to a store, so that the builder's handlers are compositions of    *)
(* the statements they execute, in the source's order.                     *)
(***************************************************************************)
EXTENDS Integers, Sequences, FiniteSets, TLC

VARIABLES
    projects,   \* rows of table projects
    files,      \* rows of table files
    nodes,      \* rows of table nodes
    edges,      \* rows of table edges
    now,        \* the wall clock read by chrono::Utc::now()
    ret,        \* the last call made on the builder / executor and its result
    wk          \* what the running process holds besides the store: the
                \* position and locals of each concurrent worker, of a
                \* parse_project run, the extractions made, the registries

vars == <<projects, files, nodes, edges, now, ret, wk>>

(***************************************************************************)
(* Bounds                                                                  *)
(***************************************************************************)
\* number of File rows written in one run (each write advances the clock)
MaxTime == 3

(***************************************************************************)
(* Values                                                                  *)
(***************************************************************************)
\* Option<String>::None for qualified_name and attributes
NoneStr == "<none>"

\* no call has returned yet
NoCall == [op |-> "none"]

RootPaths == {"/r1", "/r2"}
ProjectNames == {"n1", "n2"}
ProjectIds == {1, 2}
FilePaths == {"/a.java", "/b.go"}

\* the language id collect_files pairs with a path (by its extension)
LanguageOf(path) == IF path = "/a.java" THEN "java" ELSE "go"

Max(S) == CHOOSE x \in S : \A y \in S : y <= x
Min(S) == CHOOSE x \in S : \A y \in S : x <= y

RECURSIVE SortedSeq(_)
\* the elements of a finite set of integers in increasing order
SortedSeq(S) == IF S = {} THEN <<>> ELSE <<Min(S)>> \o SortedSeq(S \ {Min(S)})

(***************************************************************************)
(* The store: storage/sqlite.rs                                            *)
(***************************************************************************)
\* The four tables of one database.  A projects row carries id, name and
\* root_path: the columns created_at and updated_at are written by
\* insert_project and update_project_timestamp and read by no operation of the
\* builder or the query engine, so they are left out.
DB == [projects |-> projects, files |-> files, nodes |-> nodes, edges |-> edges]

EmptyDB == [projects |-> {}, files |-> {}, nodes |-> {}, edges |-> {}]

\* rowid of an INTEGER PRIMARY KEY column declared without AUTOINCREMENT:
\* one more than the largest rowid in use, 1 for an empty table
NextRowId(rows) == IF rows = {} THEN 1 ELSE Max({r.id : r \in rows}) + 1

\* a lookup that finds no project
get_project_by_path_none(db, root_path) == {}

get_project_by_path(db, root_path) ==
    {p \in db.projects : p.root_path = root_path}

\* fails on UNIQUE(root_path)
insert_project(db, project) ==
    IF \E p \in db.projects : p.root_path = project.root_path
    THEN [db |-> db, ok |-> FALSE, id |-> 0]
    ELSE LET id == NextRowId(db.projects)
         IN [db |-> [db EXCEPT !.projects = @ \cup {[project EXCEPT !.id = id]}],
             ok |-> TRUE, id |-> id]

get_file_by_path(db, project_id, path) ==
    {f \in db.files : f.project_id = project_id /\ f.path = path}

get_file(db, file_id) == {f \in db.files : f.id = file_id}

\* fails on the foreign key files.project_id and on UNIQUE(project_id, path)
insert_file(db, file) ==
    IF \/ ~ \E p \in db.projects : p.id = file.project_id
       \/ \E f \in db.files : f.project_id = file.project_id /\ f.path = file.path
    THEN [db |-> db, ok |-> FALSE, id |-> 0]
    ELSE LET id == NextRowId(db.files)
         IN [db |-> [db EXCEPT !.files = @ \cup {[file EXCEPT !.id = id]}],
             ok |-> TRUE, id |-> id]

\* DeleteNodes with the foreign keys of edges not enforced
DeleteNodes_no_cascade(db, ids) ==
    [db EXCEPT !.nodes = {n \in @ : n.id \notin ids}]

\* DELETE FROM nodes WHERE id IN ids, with edges ON DELETE CASCADE on
\* source_id and on target_id
DeleteNodes(db, ids) ==
    [db EXCEPT !.nodes = {n \in @ : n.id \notin ids},
               !.edges = {e \in @ : e.source_id \notin ids /\ e.target_id \notin ids}]

\* first statement of delete_file_data: DELETE FROM nodes WHERE file_id = ?
DeleteNodesOfFile(db, file_id) ==
    DeleteNodes(db, {n.id : n \in {m \in db.nodes : m.file_id = file_id}})

\* second statement of delete_file_data: DELETE FROM files WHERE id = ?,
\* with nodes ON DELETE CASCADE on file_id
DeleteFileRow(db, file_id) ==
    LET d == DeleteNodesOfFile(db, file_id)
    IN [d EXCEPT !.files = {f \in @ : f.id # file_id}]

delete_file_data(db, file_id) ==
    DeleteFileRow(DeleteNodesOfFile(db, file_id), file_id)

\* fails on the foreign key nodes.file_id
insert_node(db, node) ==
    IF ~ \E f \in db.files : f.id = node.file_id
    THEN [db |-> db, ok |-> FALSE, id |-> 0]
    ELSE LET id == NextRowId(db.nodes)
         IN [db |-> [db EXCEPT !.nodes = @ \cup {[node EXCEPT !.id = id]}],
             ok |-> TRUE, id |-> id]

\* fails on the foreign keys edges.source_id and edges.target_id
insert_edge(db, edge) ==
    IF \/ ~ \E n \in db.nodes : n.id = edge.source_id
       \/ ~ \E n \in db.nodes : n.id = edge.target_id
    THEN [db |-> db, ok |-> FALSE, id |-> 0]
    ELSE LET id == NextRowId(db.edges)
         IN [db |-> [db EXCEPT !.edges = @ \cup {[edge EXCEPT !.id = id]}],
             ok |-> TRUE, id |-> id]

\* the project a node belongs to through its file (JOIN files f ON n.file_id = f.id)
NodesOfProject(db, project_id) ==
    {n \in db.nodes : \E f \in db.files : f.id = n.file_id /\ f.project_id = project_id}

\* get_unresolved_references without the test e.id IS NULL
get_unresolved_references_all(db, project_id) ==
    {n \in NodesOfProject(db, project_id) : n.node_type = "reference"}

\* the (id, name) rows of get_unresolved_references, as the set of their nodes
get_unresolved_references(db, project_id) ==
    {n \in NodesOfProject(db, project_id) :
        /\ n.node_type = "reference"
        /\ ~ \E e \in db.edges : e.source_id = n.id /\ e.edge_type = "references"}

\* the IN (...) list with the kinds of the usage nodes added
FindDefinitionTypes_with_usages ==
    {"function", "method", "class", "interface", "struct", "variable", "call", "reference"}

\* the node types accepted by find_definition_by_name's IN (...) list
FindDefinitionTypes == {"function", "method", "class", "interface", "struct", "variable"}

\* find_definition_by_name without the test f.project_id = ?1
find_definition_by_name_any_project(db, project_id, name) ==
    {n.id : n \in {m \in db.nodes :
                      m.name = name /\ m.node_type \in FindDefinitionTypes}}

\* The rows find_definition_by_name's query matches.  The query has LIMIT 1
\* and no ORDER BY: it returns none if this set is empty and otherwise the id
\* of any one of its rows.
find_definition_by_name(db, project_id, name) ==
    {n.id : n \in {m \in NodesOfProject(db, project_id) :
                      m.name = name /\ m.node_type \in FindDefinitionTypes}}

\* the WHERE clause of find_node_at_position for one joined row
PositionMatches(n, line, column) ==
    /\ n.start_line <= line /\ n.end_line >= line
    /\ (n.start_line < line \/ n.start_column <= column)
    /\ (n.end_line > line \/ n.end_column >= column)

\* the ORDER BY comparing the line spans only
PositionOrderLeq_lines_only(a, b) ==
    (a.end_line - a.start_line) <= (b.end_line - b.start_line)

\* ORDER BY (n.end_line - n.start_line), (n.end_column - n.start_column):
\* row a is not after row b
PositionOrderLeq(a, b) ==
    \/ (a.end_line - a.start_line) < (b.end_line - b.start_line)
    \/ /\ (a.end_line - a.start_line) = (b.end_line - b.start_line)
       /\ (a.end_column - a.start_column) <= (b.end_column - b.start_column)

\* The rows find_node_at_position can return: LIMIT 1 takes the first row of
\* the ordering, any one of them when several rows have the least key.
find_node_at_position(db, project_id, file_path, line, column) ==
    LET rows == {n \in db.nodes :
                    /\ \E f \in db.files : /\ f.id = n.file_id
                                           /\ f.project_id = project_id
                                           /\ f.path = file_path
                    /\ PositionMatches(n, line, column)}
    IN {n \in rows : \A m \in rows : PositionOrderLeq(n, m)}

\* find_symbol_by_name comparing the name column only
find_symbol_by_name_name_only(db, project_id, name) ==
    {n \in NodesOfProject(db, project_id) : n.name = name}

\* The rows find_symbol_by_name can return (LIMIT 1, no ORDER BY).
find_symbol_by_name(db, project_id, name) ==
    {n \in NodesOfProject(db, project_id) :
        n.name = name \/ (n.qualified_name # NoneStr /\ n.qualified_name = name)}

RECURSIVE EdgeRows(_, _, _)
\* the rows of a JOIN of nodes and edges, one for each edge of ids (a sorted
\* sequence of edge ids): the node at the source (end = "source") or at the
\* target of the edge
EdgeRows(db, ids, end) ==
    IF ids = <<>>
    THEN <<>>
    ELSE LET e == CHOOSE x \in db.edges : x.id = Head(ids)
             n == CHOOSE x \in db.nodes : x.id = IF end = "source" THEN e.source_id
                                                 ELSE e.target_id
         IN <<n>> \o EdgeRows(db, Tail(ids), end)

\* find_callers with the two ends of the edge exchanged
find_callers_swapped(db, node_id) ==
    EdgeRows(db, SortedSeq({e.id : e \in {x \in db.edges :
                 x.source_id = node_id /\ x.edge_type = "calls"}}), "target")

\* JOIN edges e ON e.source_id = n.id WHERE e.target_id = ?1 AND e.edge_type = 'calls'
find_callers(db, node_id) ==
    EdgeRows(db, SortedSeq({e.id : e \in {x \in db.edges :
                 x.target_id = node_id /\ x.edge_type = "calls"}}), "source")

\* JOIN edges e ON e.target_id = n.id WHERE e.source_id = ?1 AND e.edge_type = 'calls'
find_callees(db, node_id) ==
    EdgeRows(db, SortedSeq({e.id : e \in {x \in db.edges :
                 x.source_id = node_id /\ x.edge_type = "calls"}}), "target")

\* find_reference_target following an edge of any type
find_reference_target_any_type(db, node_id) ==
    {n \in db.nodes : \E e \in db.edges : /\ e.target_id = n.id
                                          /\ e.source_id = node_id}

\* JOIN edges e ON e.target_id = n.id WHERE e.source_id = ?1 AND
\* e.edge_type = 'references' LIMIT 1: the rows the query can return
find_reference_target(db, node_id) ==
    {n \in db.nodes : \E e \in db.edges : /\ e.target_id = n.id
                                          /\ e.source_id = node_id
                                          /\ e.edge_type = "references"}

\* find_all_references reading the edges from the other end: the targets of
\* the references edges that leave the node
find_all_references_outgoing(db, node_id) ==
    EdgeRows(db, SortedSeq({e.id : e \in {x \in db.edges :
                 x.source_id = node_id /\ x.edge_type = "references"}}), "target")

\* JOIN edges e ON e.source_id = n.id WHERE e.target_id = ?1 AND e.edge_type = 'references'
find_all_references(db, node_id) ==
    EdgeRows(db, SortedSeq({e.id : e \in {x \in db.edges :
                 x.target_id = node_id /\ x.edge_type = "references"}}), "source")

\* SQLite's LIKE folds the case of the ASCII letters: the letter a character
\* is compared as
LikeFold(ch) ==
    CASE ch = "A" -> "a" [] ch = "B" -> "b" [] ch = "C" -> "c" [] ch = "D" -> "d"
      [] ch = "E" -> "e" [] ch = "F" -> "f" [] ch = "G" -> "g" [] ch = "H" -> "h"
      [] ch = "I" -> "i" [] ch = "J" -> "j" [] ch = "K" -> "k" [] ch = "L" -> "l"
      [] ch = "M" -> "m" [] ch = "N" -> "n" [] ch = "O" -> "o" [] ch = "P" -> "p"
      [] ch = "Q" -> "q" [] ch = "R" -> "r" [] ch = "S" -> "s" [] ch = "T" -> "t"
      [] ch = "U" -> "u" [] ch = "V" -> "v" [] ch = "W" -> "w" [] ch = "X" -> "x"
      [] ch = "Y" -> "y" [] ch = "Z" -> "z" [] OTHER -> ch

\* a LIKE that compares the characters as they are and knows no wildcard
LikeChar_literal(p, ch) == p = ch

\* one character of a LIKE pattern that is not % against one character: _
\* matches any character, any other character matches itself with the case
\* of ASCII letters folded
LikeChar(p, ch) == p = "_" \/ LikeFold(p) = LikeFold(ch)

RECURSIVE LikeFrom(_, _)
\* text LIKE pattern, the pattern of search_symbols being %query%: the query
\* matches at some offset of the text, a % of the query matching any run of
\* characters
LikeFrom(q, text) ==
    IF q = "" THEN TRUE
    ELSE IF SubSeq(q, 1, 1) = "%"
         THEN \E k \in 0..Len(text) :
                 LikeFrom(SubSeq(q, 2, Len(q)), SubSeq(text, k + 1, Len(text)))
         ELSE /\ text # ""
              /\ LikeChar(SubSeq(q, 1, 1), SubSeq(text, 1, 1))
              /\ LikeFrom(SubSeq(q, 2, Len(q)), SubSeq(text, 2, Len(text)))

\* column LIKE '%' || query || '%', NULL for a NULL column
Like(column, query) ==
    /\ column # NoneStr
    /\ \E k \in 0..Len(column) : LikeFrom(query, SubSeq(column, k + 1, Len(column)))

\* the rows of the WHERE clause of search_symbols; symbol_type is the set
\* holding the type of Some(stype), empty for None
SearchMatches(db, project_id, query, symbol_type) ==
    {n \in NodesOfProject(db, project_id) :
        /\ symbol_type # {} => n.node_type \in symbol_type
        /\ Like(n.name, query) \/ Like(n.qualified_name, query)}

\* the rows of a set of nodes as a list, in id order
NodeRows(rows) ==
    LET ids == SortedSeq({n.id : n \in rows})
    IN [i \in 1..Len(ids) |-> CHOOSE n \in rows : n.id = ids[i]]

\* search_symbols without its LIMIT
search_symbols_unlimited(db, project_id, query, symbol_type, limit) ==
    {NodeRows(SearchMatches(db, project_id, query, symbol_type))}

\* The lists search_symbols can return: LIMIT keeps limit of the matching
\* rows, or all of them when there are fewer; no ORDER BY says which.
search_symbols(db, project_id, query, symbol_type, limit) ==
    LET rows == SearchMatches(db, project_id, query, symbol_type)
        kept == Min({limit, Cardinality(rows)})
    IN {NodeRows(R) : R \in {T \in SUBSET rows : Cardinality(T) = kept}}

(***************************************************************************)
(* Fragments: core/parser.rs FileGraphData, storage/models.rs NodeData     *)
(* and EdgeData                                                            *)
(***************************************************************************)
NodeData(node_type, name, qualified_name, start_line, start_column, end_line, end_column) ==
    [node_type |-> node_type, name |-> name, qualified_name |-> qualified_name,
     start_line |-> start_line, start_column |-> start_column,
     end_line |-> end_line, end_column |-> end_column, attributes |-> NoneStr]

EdgeData(source_idx, target_idx, edge_type) ==
    [source_idx |-> source_idx, target_idx |-> target_idx,
     edge_type |-> edge_type, attributes |-> NoneStr]

FileGraphData(ns, es, content_hash) ==
    [nodes |-> ns, edges |-> es, content_hash |-> content_hash]

\* a class extending B and using x; its second edge has a target index that
\* is no position of the node list (as in test_store_graph_with_invalid_edge_indices)
FragA ==
    FileGraphData(
        <<NodeData("class", "A", "p.A", 1, 1, 20, 1),
          NodeData("reference", "B", NoneStr, 5, 1, 8, 1),
          NodeData("reference", "x", NoneStr, 6, 3, 6, 9)>>,
        <<EdgeData(0, 1, "extends"), EdgeData(0, 99, "contains"), EdgeData(0, 2, "contains")>>,
        "h1")

\* other content under the fingerprint of FragA
FragA2 ==
    FileGraphData(
        <<NodeData("class", "B", "q.B", 1, 1, 3, 1)>>,
        <<>>,
        "h1")

\* the definitions of B, x (a field) and helper
FragB ==
    FileGraphData(
        <<NodeData("class", "B", "p.B", 1, 1, 9, 1),
          NodeData("field", "x", "p.B.x", 2, 1, 2, 5),
          NodeData("function", "helper", "p.helper", 4, 1, 6, 1)>>,
        <<EdgeData(0, 1, "contains"), EdgeData(0, 2, "contains")>>,
        "h2")

\* main calling helper (a call node) and naming helper (a reference node)
FragC ==
    FileGraphData(
        <<NodeData("function", "main", "p.main", 1, 1, 9, 1),
          NodeData("call", "helper", NoneStr, 2, 1, 2, 8),
          NodeData("reference", "helper", NoneStr, 3, 1, 3, 8)>>,
        <<EdgeData(0, 1, "calls"), EdgeData(0, 1, "calls")>>,
        "h3")

Fragments == {FragA, FragA2, FragB, FragC}

\* spans on one line, one inside the other, two with the same span, and a
\* span with fewer lines and a larger column difference than its parent
FragS ==
    FileGraphData(
        <<NodeData("class", "S", "p.S", 1, 1, 3, 2),
          NodeData("method", "m", "p.S.m", 2, 5, 3, 1),
          NodeData("call", "c", NoneStr, 2, 1, 2, 9),
          NodeData("reference", "r", NoneStr, 2, 3, 2, 7),
          NodeData("type", "t", NoneStr, 2, 3, 2, 7)>>,
        <<EdgeData(0, 1, "contains")>>,
        "h4")

\* the classes of a search: names sharing a prefix, a name differing from it
\* in case only, and names with and without the characters LIKE reads as
\* wildcards
FragU ==
    FileGraphData(
        <<NodeData("class", "UserService", "com.UserService", 1, 1, 3, 1),
          NodeData("class", "UserRepository", "com.UserRepository", 4, 1, 6, 1),
          NodeData("class", "OrderService", "com.OrderService", 7, 1, 9, 1),
          NodeData("method", "getUser", NoneStr, 2, 1, 2, 9),
          NodeData("variable", "user", NoneStr, 5, 1, 5, 5),
          NodeData("variable", "a_b", NoneStr, 8, 1, 8, 4),
          NodeData("variable", "axb", NoneStr, 8, 5, 8, 8)>>,
        <<EdgeData(0, 3, "contains")>>,
        "h6")

\* a chain of calls main -> helper -> leaf, main also containing leaf
FragG ==
    FileGraphData(
        <<NodeData("function", "main", "p.main", 1, 1, 3, 1),
          NodeData("function", "helper", "p.helper", 4, 1, 6, 1),
          NodeData("function", "leaf", "p.leaf", 7, 1, 9, 1)>>,
        <<EdgeData(0, 1, "calls"), EdgeData(1, 2, "calls"), EdgeData(0, 2, "contains")>>,
        "h5")

\* a class naming B twice, one reference inside the other
FragR ==
    FileGraphData(
        <<NodeData("class", "R", "p.R", 1, 1, 20, 1),
          NodeData("reference", "B", NoneStr, 5, 1, 8, 1),
          NodeData("reference", "B", NoneStr, 6, 3, 6, 9)>>,
        <<EdgeData(0, 1, "contains"), EdgeData(0, 2, "contains")>>,
        "h7")

\* the store_file_graph calls of a run: every fragment at every path of the
\* first project, two fragments at one path of the second
StoreCalls ==
    ({1} \X FilePaths \X Fragments) \cup ({2} \X {"/a.java"} \X {FragB, FragC})

(***************************************************************************)
(* Syntax trees and the extractors: languages/go/mod.rs and                *)
(* languages/java/mod.rs.  A tree_sitter::Node is a record of its kind,    *)
(* its text in the source, its 0-based start and end position and its      *)
(* children, each a pair of the field name it is under ("" for none) and   *)
(* the child.                                                              *)
(***************************************************************************)
Ast(kind, text, sr, sc, er, ec, kids) ==
    [kind |-> kind, text |-> text, sr |-> sr, sc |-> sc, er |-> er, ec |-> ec,
     kids |-> kids]

\* node.child(i), i from 1
Child(node, i) == node.kids[i][2]

\* node.child_by_field_name(f): the first child under the field, if any
child_by_field_name(node, f) ==
    LET at == {i \in DOMAIN node.kids : node.kids[i][1] = f}
    IN IF at = {} THEN {} ELSE {Child(node, Min(at))}

\* the positions of the children of one of the kinds, in order
ChildrenOfKind(node, kinds) ==
    SortedSeq({i \in DOMAIN node.kids : Child(node, i).kind \in kinds})

\* the value of an Option that is Some
The(opt) == CHOOSE x \in opt : TRUE

\* the index of the next pushed node, counted one too far
NextIdx_after_push(st) == Len(st.nodes) + 1

\* self.nodes.len(): the index the next pushed node gets
NextIdx(st) == Len(st.nodes)

\* a NodeData with the 1-based span of a syntax node
NodeAt(node_type, name, qualified_name, attributes, node) ==
    [NodeData(node_type, name, qualified_name,
              node.sr + 1, node.sc + 1, node.er + 1, node.ec + 1)
       EXCEPT !.attributes = attributes]

PushNode(st, n) == [st EXCEPT !.nodes = Append(@, n)]

\* PushEdge giving every edge the type "references"
PushEdge_references(st, source_idx, target_idx, edge_type) ==
    [st EXCEPT !.edges = Append(@, EdgeData(source_idx, target_idx, "references"))]

\* PushEdge with the two indices exchanged
PushEdge_reversed(st, source_idx, target_idx, edge_type) ==
    [st EXCEPT !.edges = Append(@, EdgeData(target_idx, source_idx, edge_type))]

PushEdge(st, source_idx, target_idx, edge_type) ==
    [st EXCEPT !.edges = Append(@, EdgeData(source_idx, target_idx, edge_type))]

\* F(v), v being evaluated once, before F is applied
Strictly(v, F(_)) == CHOOSE r \in {F(x) : x \in {v}} : TRUE

RECURSIVE FoldChildren(_, _, _, _)
\* for i in 0..node.child_count() { step(child) }, from child i on
FoldChildren(Step(_, _), state, node, i) ==
    Strictly(state, LAMBDA st :
    IF i > Len(node.kids) THEN st
    ELSE FoldChildren(Step, Step(st, Child(node, i)), node, i + 1))

RECURSIVE TrimQuotes(_)
\* name.trim_matches('"')
TrimQuotes(t) ==
    IF t # "" /\ SubSeq(t, 1, 1) = "\""
    THEN TrimQuotes(SubSeq(t, 2, Len(t)))
    ELSE IF t # "" /\ SubSeq(t, Len(t), Len(t)) = "\""
         THEN TrimQuotes(SubSeq(t, 1, Len(t) - 1))
         ELSE t

\* an extractor that starts in the package of the fragment returned last
GoGraphExtractor_kept(source) ==
    [nodes |-> <<>>, edges |-> <<>>,
     current_package |-> IF ret = NoCall THEN {}
                         ELSE {ret.nodes[i].name : i \in {j \in DOMAIN ret.nodes :
                                   ret.nodes[j].node_type = "package"}},
     current_func |-> {}, current_type |-> {}]

\* GoGraphExtractor::new
GoGraphExtractor_new(source) ==
    [nodes |-> <<>>, edges |-> <<>>, current_package |-> {},
     current_func |-> {}, current_type |-> {}]

go_qualify_name(state, name) ==
    Strictly(state, LAMBDA st :
    IF st.current_package # {} THEN The(st.current_package) \o "." \o name ELSE name)

go_extract_package(state, node) ==
    Strictly(state, LAMBDA st :
    LET ids == ChildrenOfKind(node, {"package_identifier"})
    IN IF ids = <<>> THEN st
       ELSE LET name == Child(node, ids[1]).text
            IN PushNode([st EXCEPT !.current_package = {name}],
                        NodeAt("package", name, name, NoneStr, node)))

go_extract_import_spec(state, node) ==
    Strictly(state, LAMBDA st :
    LET path == child_by_field_name(node, "path")
    IN IF path = {} THEN st
       ELSE LET name == TrimQuotes(The(path).text)
            IN PushNode(st, NodeAt("import", name, name, NoneStr, node)))

go_extract_imports_child(state, child) ==
    Strictly(state, LAMBDA st :
    IF child.kind = "import_spec_list"
    THEN FoldChildren(go_extract_import_spec, st, child, 1)
    ELSE IF child.kind = "import_spec" THEN go_extract_import_spec(st, child)
    ELSE st)

go_extract_imports(st, node) == FoldChildren(go_extract_imports_child, st, node, 1)

RECURSIVE go_extract_parameters(_, _, _, _)
\* extract_parameters, from child i of params on
go_extract_parameters(state, func_idx, params, i) ==
    Strictly(state, LAMBDA st :
    IF i > Len(params.kids) THEN st
    ELSE LET param == Child(params, i)
             name_node == child_by_field_name(param, "name")
         IN IF param.kind = "parameter_declaration" /\ name_node # {}
            THEN go_extract_parameters(
                     PushEdge(PushNode(st, NodeAt("parameter", The(name_node).text,
                                                   NoneStr, NoneStr, param)),
                              func_idx, NextIdx(st), "has_parameter"),
                     func_idx, params, i + 1)
            ELSE go_extract_parameters(st, func_idx, params, i + 1))

go_extract_type_name(node) ==
    IF node.kind = "pointer_type"
    THEN LET ids == ChildrenOfKind(node, {"type_identifier"})
         IN IF ids = <<>> THEN node.text ELSE Child(node, ids[1]).text
    ELSE node.text

go_extract_receiver_type(receiver) ==
    LET typed == {i \in DOMAIN receiver.kids :
                     /\ Child(receiver, i).kind = "parameter_declaration"
                     /\ child_by_field_name(Child(receiver, i), "type") # {}}
    IN IF typed = {} THEN {}
       ELSE {go_extract_type_name(The(child_by_field_name(Child(receiver, Min(typed)),
                                                          "type")))}

RECURSIVE go_extract_fields(_, _, _, _)
\* the loop of extract_struct_fields over a field_declaration_list
go_extract_fields(state, struct_idx, list, j) ==
    Strictly(state, LAMBDA st :
    IF j > Len(list.kids) THEN st
    ELSE LET field == Child(list, j)
             name_node == child_by_field_name(field, "name")
         IN IF field.kind = "field_declaration" /\ name_node # {}
            THEN go_extract_fields(
                     PushEdge(PushNode(st, NodeAt("field", The(name_node).text,
                                                   NoneStr, NoneStr, field)),
                              struct_idx, NextIdx(st), "contains"),
                     struct_idx, list, j + 1)
            ELSE go_extract_fields(st, struct_idx, list, j + 1))

RECURSIVE go_extract_struct_fields(_, _, _, _)
go_extract_struct_fields(state, struct_idx, node, i) ==
    Strictly(state, LAMBDA st :
    IF i > Len(node.kids) THEN st
    ELSE go_extract_struct_fields(
             IF Child(node, i).kind = "field_declaration_list"
             THEN go_extract_fields(st, struct_idx, Child(node, i), 1) ELSE st,
             struct_idx, node, i + 1))

RECURSIVE go_extract_interface_methods(_, _, _, _)
go_extract_interface_methods(state, interface_idx, node, i) ==
    Strictly(state, LAMBDA st :
    IF i > Len(node.kids) THEN st
    ELSE LET child == Child(node, i)
             name_node == child_by_field_name(child, "name")
         IN IF child.kind = "method_spec" /\ name_node # {}
            THEN go_extract_interface_methods(
                     PushEdge(PushNode(st, NodeAt("method", The(name_node).text, NoneStr,
                                                   "{\"abstract\":true}", child)),
                              interface_idx, NextIdx(st), "contains"),
                     interface_idx, node, i + 1)
            ELSE go_extract_interface_methods(st, interface_idx, node, i + 1))

go_extract_type_spec(state, node) ==
    Strictly(state, LAMBDA st :
    LET name_node == child_by_field_name(node, "name")
        type_node == child_by_field_name(node, "type")
    IN IF name_node = {} THEN st
       ELSE LET name == The(name_node).text
                qualified_name == go_qualify_name(st, name)
                type_kind == IF type_node = {} THEN "" ELSE The(type_node).kind
                node_type == IF type_kind = "struct_type" THEN "struct"
                             ELSE IF type_kind = "interface_type" THEN "interface"
                             ELSE "type"
                type_idx == NextIdx(st)
                st1 == PushNode(st, NodeAt(node_type, name, qualified_name, NoneStr, node))
            IN IF type_kind = "struct_type"
               THEN [go_extract_struct_fields(
                         [st1 EXCEPT !.current_type = {qualified_name}],
                         type_idx, The(type_node), 1)
                       EXCEPT !.current_type = st.current_type]
               ELSE IF type_kind = "interface_type"
                    THEN go_extract_interface_methods(st1, type_idx, The(type_node), 1)
                    ELSE st1)

go_extract_type_declaration_child(state, child) ==
    Strictly(state, LAMBDA st :
    IF child.kind = "type_spec" THEN go_extract_type_spec(st, child) ELSE st)

go_extract_type_declaration(state, node) ==
    Strictly(state, LAMBDA st :
    FoldChildren(go_extract_type_declaration_child, st, node, 1))

RECURSIVE go_extract(_, _)

\* extract_function, and extract_method with its receiver
go_extract_callable(state, node, node_type) ==
    Strictly(state, LAMBDA st :
    LET name_node == child_by_field_name(node, "name")
        receiver == child_by_field_name(node, "receiver")
        receiver_type == IF node_type = "method" /\ receiver # {}
                         THEN go_extract_receiver_type(The(receiver)) ELSE {}
        params == child_by_field_name(node, "parameters")
        body == child_by_field_name(node, "body")
    IN IF name_node = {} THEN st
       ELSE LET name == The(name_node).text
                qualified_name == IF receiver_type # {}
                                  THEN The(receiver_type) \o "." \o name
                                  ELSE go_qualify_name(st, name)
                attributes == IF receiver_type # {}
                              THEN "{\"receiver\":\"" \o The(receiver_type) \o "\"}"
                              ELSE NoneStr
                func_idx == NextIdx(st)
                st1 == PushNode(st, NodeAt(node_type, name, qualified_name, attributes, node))
                st2 == IF params = {} THEN st1
                       ELSE go_extract_parameters(st1, func_idx, The(params), 1)
                st3 == [st2 EXCEPT !.current_func = {func_idx}]
                st4 == IF body = {} THEN st3
                       ELSE FoldChildren(go_extract, st3, The(body), 1)
            IN [st4 EXCEPT !.current_func = st.current_func])

go_extract_function(st, node) == go_extract_callable(st, node, "function")

go_extract_method(st, node) == go_extract_callable(st, node, "method")

go_extract_call(state, node) ==
    Strictly(state, LAMBDA st :
    LET func_node == child_by_field_name(node, "function")
        args == child_by_field_name(node, "arguments")
        st1 == IF func_node = {} THEN st
               ELSE LET pushed == PushNode(st, NodeAt("call", The(func_node).text,
                                                      NoneStr, NoneStr, node))
                    IN IF st.current_func = {} THEN pushed
                       ELSE PushEdge(pushed, The(st.current_func), NextIdx(st), "calls")
    IN IF args = {} THEN st1 ELSE FoldChildren(go_extract, st1, The(args), 1))

\* GoGraphExtractor::extract
go_extract(state, node) ==
    Strictly(state, LAMBDA st :
    CASE node.kind = "package_clause" -> go_extract_package(st, node)
      [] node.kind = "import_declaration" -> go_extract_imports(st, node)
      [] node.kind = "function_declaration" -> go_extract_function(st, node)
      [] node.kind = "method_declaration" -> go_extract_method(st, node)
      [] node.kind = "type_declaration" -> go_extract_type_declaration(st, node)
      [] node.kind = "call_expression" -> go_extract_call(st, node)
      [] OTHER -> FoldChildren(go_extract, st, node, 1))

\* JavaGraphExtractor::new
JavaGraphExtractor_new(source) ==
    [nodes |-> <<>>, edges |-> <<>>, current_class |-> {}, current_method |-> {}]

\* qualify_name and qualify_method_name
java_qualify_name(state, name) ==
    Strictly(state, LAMBDA st :
    IF st.current_class # {} THEN The(st.current_class) \o "." \o name ELSE name)

java_extract_package(state, node) ==
    Strictly(state, LAMBDA st :
    LET name_node == child_by_field_name(node, "name")
    IN IF name_node = {} THEN st
       ELSE PushNode(st, NodeAt("package", The(name_node).text, The(name_node).text,
                                NoneStr, node)))

java_extract_import(state, node) ==
    Strictly(state, LAMBDA st :
    LET ids == ChildrenOfKind(node, {"scoped_identifier", "identifier"})
    IN IF ids = <<>> THEN st
       ELSE PushNode(st, NodeAt("import", Child(node, ids[1]).text,
                                Child(node, ids[1]).text, NoneStr, node)))

RECURSIVE java_extract_implements(_, _, _, _)
java_extract_implements(state, class_idx, interfaces, i) ==
    Strictly(state, LAMBDA st :
    IF i > Len(interfaces.kids) THEN st
    ELSE LET child == Child(interfaces, i)
         IN IF child.kind \in {"type_identifier", "generic_type"}
            THEN java_extract_implements(
                     PushEdge(PushNode(st, NodeAt("reference", child.text, NoneStr,
                                                   NoneStr, child)),
                              class_idx, NextIdx(st), "implements"),
                     class_idx, interfaces, i + 1)
            ELSE java_extract_implements(st, class_idx, interfaces, i + 1))

RECURSIVE java_extract_parameters(_, _, _, _)
java_extract_parameters(state, method_idx, params, i) ==
    Strictly(state, LAMBDA st :
    IF i > Len(params.kids) THEN st
    ELSE LET param == Child(params, i)
             name_node == child_by_field_name(param, "name")
         IN IF param.kind = "formal_parameter" /\ name_node # {}
            THEN java_extract_parameters(
                     PushEdge(PushNode(st, NodeAt("parameter", The(name_node).text,
                                                   NoneStr, NoneStr, param)),
                              method_idx, NextIdx(st), "has_parameter"),
                     method_idx, params, i + 1)
            ELSE java_extract_parameters(st, method_idx, params, i + 1))

java_extract_field(state, node) ==
    Strictly(state, LAMBDA st :
    LET declarator == child_by_field_name(node, "declarator")
        name_node == IF declarator = {} THEN {}
                     ELSE child_by_field_name(The(declarator), "name")
    IN IF name_node = {} THEN st
       ELSE PushNode(st, NodeAt("field", The(name_node).text, NoneStr, NoneStr, node)))

RECURSIVE java_extract(_, _)

java_extract_class(state, node) ==
    Strictly(state, LAMBDA st :
    LET name_node == child_by_field_name(node, "name")
        superclass == child_by_field_name(node, "superclass")
        interfaces == child_by_field_name(node, "interfaces")
        body == child_by_field_name(node, "body")
    IN IF name_node = {} THEN st
       ELSE LET name == The(name_node).text
                qualified_name == java_qualify_name(st, name)
                class_idx == NextIdx(st)
                st1 == PushNode(st, NodeAt("class", name, qualified_name, NoneStr, node))
                st2 == IF superclass = {} THEN st1
                       ELSE PushEdge(PushNode(st1, NodeAt("reference", The(superclass).text,
                                                          NoneStr, NoneStr, The(superclass))),
                                     class_idx, NextIdx(st1), "extends")
                st3 == IF interfaces = {} THEN st2
                       ELSE java_extract_implements(st2, class_idx, The(interfaces), 1)
                st4 == [st3 EXCEPT !.current_class = {qualified_name}]
                st5 == IF body = {} THEN st4
                       ELSE FoldChildren(java_extract, st4, The(body), 1)
            IN [st5 EXCEPT !.current_class = st.current_class])

java_extract_interface(state, node) ==
    Strictly(state, LAMBDA st :
    LET name_node == child_by_field_name(node, "name")
        body == child_by_field_name(node, "body")
    IN IF name_node = {} THEN st
       ELSE LET name == The(name_node).text
                qualified_name == java_qualify_name(st, name)
                st1 == PushNode(st, NodeAt("interface", name, qualified_name, NoneStr, node))
                st2 == [st1 EXCEPT !.current_class = {qualified_name}]
                st3 == IF body = {} THEN st2
                       ELSE FoldChildren(java_extract, st2, The(body), 1)
            IN [st3 EXCEPT !.current_class = st.current_class])

\* extract_method, and extract_constructor, which skips the parameters
java_extract_callable(state, node, node_type) ==
    Strictly(state, LAMBDA st :
    LET name_node == child_by_field_name(node, "name")
        params == child_by_field_name(node, "parameters")
        body == child_by_field_name(node, "body")
    IN IF name_node = {} THEN st
       ELSE LET name == The(name_node).text
                method_idx == NextIdx(st)
                st1 == PushNode(st, NodeAt(node_type, name, java_qualify_name(st, name),
                                           NoneStr, node))
                st2 == IF node_type = "constructor" \/ params = {} THEN st1
                       ELSE java_extract_parameters(st1, method_idx, The(params), 1)
                st3 == [st2 EXCEPT !.current_method = {method_idx}]
                st4 == IF body = {} THEN st3
                       ELSE FoldChildren(java_extract, st3, The(body), 1)
            IN [st4 EXCEPT !.current_method = st.current_method])

java_extract_method(st, node) == java_extract_callable(st, node, "method")

java_extract_constructor(st, node) == java_extract_callable(st, node, "constructor")

java_extract_method_invocation(state, node) ==
    Strictly(state, LAMBDA st :
    LET name_node == child_by_field_name(node, "name")
        args == child_by_field_name(node, "arguments")
        st1 == IF name_node = {} THEN st
               ELSE LET pushed == PushNode(st, NodeAt("call", The(name_node).text,
                                                      NoneStr, NoneStr, node))
                    IN IF st.current_method = {} THEN pushed
                       ELSE PushEdge(pushed, The(st.current_method), NextIdx(st), "calls")
    IN IF args = {} THEN st1 ELSE FoldChildren(java_extract, st1, The(args), 1))

\* JavaGraphExtractor::extract
java_extract(state, node) ==
    Strictly(state, LAMBDA st :
    CASE node.kind = "package_declaration" -> java_extract_package(st, node)
      [] node.kind = "import_declaration" -> java_extract_import(st, node)
      [] node.kind = "class_declaration" -> java_extract_class(st, node)
      [] node.kind = "interface_declaration" -> java_extract_interface(st, node)
      [] node.kind = "method_declaration" -> java_extract_method(st, node)
      [] node.kind = "constructor_declaration" -> java_extract_constructor(st, node)
      [] node.kind = "field_declaration" -> java_extract_field(st, node)
      [] node.kind = "method_invocation" -> java_extract_method_invocation(st, node)
      [] OTHER -> FoldChildren(java_extract, st, node, 1))

(***************************************************************************)
(* Source files: the text of a file and the tree tree_sitter yields for it *)
(***************************************************************************)
\* a token or identifier: a node without children
Leaf(kind, text, row, sc, ec) == Ast(kind, text, row, sc, row, ec, <<>>)

\* package main / import "fmt" / func main() { helper() } / func helper() {}
GoMainTree ==
    Ast("source_file", "", 0, 0, 6, 0, <<
      <<"", Ast("package_clause", "package main", 0, 0, 0, 12, <<
              <<"", Leaf("package", "package", 0, 0, 7)>>,
              <<"", Leaf("package_identifier", "main", 0, 8, 12)>> >>)>>,
      <<"", Ast("import_declaration", "import \"fmt\"", 1, 0, 1, 12, <<
              <<"", Leaf("import", "import", 1, 0, 6)>>,
              <<"", Ast("import_spec", "\"fmt\"", 1, 7, 1, 12, <<
                      <<"path", Leaf("interpreted_string_literal", "\"fmt\"", 1, 7, 12)>>
                    >>)>> >>)>>,
      <<"", Ast("function_declaration", "func main() {..}", 2, 0, 4, 1, <<
              <<"", Leaf("func", "func", 2, 0, 4)>>,
              <<"name", Leaf("identifier", "main", 2, 5, 9)>>,
              <<"parameters", Ast("parameter_list", "()", 2, 9, 2, 11, <<>>)>>,
              <<"body", Ast("block", "{..}", 2, 12, 4, 1, <<
                  <<"", Ast("expression_statement", "helper()", 3, 4, 3, 12, <<
                      <<"", Ast("call_expression", "helper()", 3, 4, 3, 12, <<
                          <<"function", Leaf("identifier", "helper", 3, 4, 10)>>,
                          <<"arguments", Ast("argument_list", "()", 3, 10, 3, 12, <<>>)>>
                        >>)>> >>)>> >>)>> >>)>>,
      <<"", Ast("function_declaration", "func helper() {}", 5, 0, 5, 16, <<
              <<"name", Leaf("identifier", "helper", 5, 5, 11)>>,
              <<"parameters", Ast("parameter_list", "()", 5, 11, 5, 13, <<>>)>>,
              <<"body", Ast("block", "{}", 5, 14, 5, 16, <<>>)>> >>)>> >>)

\* package lib / type T struct { f int } / type I interface { M() } /
\* func (t *T) main(n int) { helper(g(n)) } / func helper() {} / var v = top()
GoLibTree ==
    Ast("source_file", "", 0, 0, 6, 0, <<
      <<"", Ast("package_clause", "package lib", 0, 0, 0, 11, <<
              <<"", Leaf("package_identifier", "lib", 0, 8, 11)>> >>)>>,
      <<"", Ast("type_declaration", "type T struct { f int }", 1, 0, 1, 23, <<
              <<"", Ast("type_spec", "T struct { f int }", 1, 5, 1, 23, <<
                  <<"name", Leaf("type_identifier", "T", 1, 5, 6)>>,
                  <<"type", Ast("struct_type", "struct { f int }", 1, 7, 1, 23, <<
                      <<"", Ast("field_declaration_list", "{ f int }", 1, 14, 1, 23, <<
                          <<"", Ast("field_declaration", "f int", 1, 16, 1, 21, <<
                              <<"name", Leaf("field_identifier", "f", 1, 16, 17)>>,
                              <<"type", Leaf("type_identifier", "int", 1, 18, 21)>>
                            >>)>> >>)>> >>)>> >>)>> >>)>>,
      <<"", Ast("type_declaration", "type I interface { M() }", 2, 0, 2, 24, <<
              <<"", Ast("type_spec", "I interface { M() }", 2, 5, 2, 24, <<
                  <<"name", Leaf("type_identifier", "I", 2, 5, 6)>>,
                  <<"type", Ast("interface_type", "interface { M() }", 2, 7, 2, 24, <<
                      <<"", Ast("method_spec", "M()", 2, 19, 2, 22, <<
                          <<"name", Leaf("field_identifier", "M", 2, 19, 20)>> >>)>>
                    >>)>> >>)>> >>)>>,
      <<"", Ast("method_declaration", "func (t *T) main(n int) {..}", 3, 0, 3, 40, <<
              <<"receiver", Ast("parameter_list", "(t *T)", 3, 5, 3, 11, <<
                  <<"", Ast("parameter_declaration", "t *T", 3, 6, 3, 10, <<
                      <<"name", Leaf("identifier", "t", 3, 6, 7)>>,
                      <<"type", Ast("pointer_type", "*T", 3, 8, 3, 10, <<
                          <<"", Leaf("type_identifier", "T", 3, 9, 10)>> >>)>> >>)>> >>)>>,
              <<"name", Leaf("field_identifier", "main", 3, 12, 16)>>,
              <<"parameters", Ast("parameter_list", "(n int)", 3, 16, 3, 23, <<
                  <<"", Ast("parameter_declaration", "n int", 3, 17, 3, 22, <<
                      <<"name", Leaf("identifier", "n", 3, 17, 18)>>,
                      <<"type", Leaf("type_identifier", "int", 3, 19, 22)>> >>)>> >>)>>,
              <<"body", Ast("block", "{..}", 3, 24, 3, 40, <<
                  <<"", Ast("expression_statement", "helper(g(n))", 3, 26, 3, 38, <<
                      <<"", Ast("call_expression", "helper(g(n))", 3, 26, 3, 38, <<
                          <<"function", Leaf("identifier", "helper", 3, 26, 32)>>,
                          <<"arguments", Ast("argument_list", "(g(n))", 3, 32, 3, 38, <<
                              <<"", Ast("call_expression", "g(n)", 3, 33, 3, 37, <<
                                  <<"function", Leaf("identifier", "g", 3, 33, 34)>>,
                                  <<"arguments", Ast("argument_list", "(n)", 3, 34, 3, 37,
                                                     <<>>)>> >>)>> >>)>> >>)>> >>)>>
                >>)>> >>)>>,
      <<"", Ast("function_declaration", "func helper() {}", 4, 0, 4, 16, <<
              <<"name", Leaf("identifier", "helper", 4, 5, 11)>>,
              <<"parameters", Ast("parameter_list", "()", 4, 11, 4, 13, <<>>)>>,
              <<"body", Ast("block", "{}", 4, 14, 4, 16, <<>>)>> >>)>>,
      <<"", Ast("var_declaration", "var v = top()", 5, 0, 5, 13, <<
              <<"", Ast("call_expression", "top()", 5, 8, 5, 13, <<
                  <<"function", Leaf("identifier", "top", 5, 8, 11)>>,
                  <<"arguments", Ast("argument_list", "()", 5, 11, 5, 13, <<>>)>> >>)>>
            >>)>> >>)

\* func orphan(n int) {}, without a package clause
GoBareTree ==
    Ast("source_file", "", 0, 0, 1, 0, <<
      <<"", Ast("function_declaration", "func orphan(n int) {}", 0, 0, 0, 21, <<
              <<"name", Leaf("identifier", "orphan", 0, 5, 11)>>,
              <<"parameters", Ast("parameter_list", "(n int)", 0, 11, 0, 18, <<
                  <<"", Ast("parameter_declaration", "n int", 0, 12, 0, 17, <<
                          <<"name", Leaf("identifier", "n", 0, 12, 13)>>,
                          <<"type", Leaf("type_identifier", "int", 0, 14, 17)>> >>)>> >>)>>,
              <<"body", Ast("block", "{}", 0, 19, 0, 21, <<>>)>> >>)>> >>)

\* package app; / import java.util.List; /
\* class Main extends Base implements Runnable { int count; Main() { init(); }
\*   void main(String args) { helper(); } void helper() {} } /
\* interface Svc { void run(); }
JavaMainTree ==
    Ast("program", "", 0, 0, 9, 0, <<
      <<"", Ast("package_declaration", "package app;", 0, 0, 0, 12, <<
              <<"", Leaf("package", "package", 0, 0, 7)>>,
              <<"", Leaf("identifier", "app", 0, 8, 11)>> >>)>>,
      <<"", Ast("import_declaration", "import java.util.List;", 1, 0, 1, 22, <<
              <<"", Leaf("import", "import", 1, 0, 6)>>,
              <<"", Leaf("scoped_identifier", "java.util.List", 1, 7, 21)>> >>)>>,
      <<"", Ast("class_declaration", "class Main ..", 2, 0, 7, 1, <<
              <<"name", Leaf("identifier", "Main", 2, 6, 10)>>,
              <<"superclass", Ast("superclass", "extends Base", 2, 11, 2, 23, <<
                  <<"", Leaf("type_identifier", "Base", 2, 19, 23)>> >>)>>,
              <<"interfaces", Ast("super_interfaces", "implements Runnable", 2, 24, 2, 43, <<
                  <<"", Leaf("implements", "implements", 2, 24, 34)>>,
                  <<"", Ast("type_list", "Runnable", 2, 35, 2, 43, <<
                      <<"", Leaf("type_identifier", "Runnable", 2, 35, 43)>> >>)>> >>)>>,
              <<"body", Ast("class_body", "{..}", 2, 44, 7, 1, <<
                  <<"", Ast("field_declaration", "int count;", 3, 2, 3, 12, <<
                      <<"type", Leaf("integral_type", "int", 3, 2, 5)>>,
                      <<"declarator", Ast("variable_declarator", "count", 3, 6, 3, 11, <<
                          <<"name", Leaf("identifier", "count", 3, 6, 11)>> >>)>> >>)>>,
                  <<"", Ast("constructor_declaration", "Main() { init(); }", 4, 2, 4, 20, <<
                      <<"name", Leaf("identifier", "Main", 4, 2, 6)>>,
                      <<"parameters", Ast("formal_parameters", "()", 4, 6, 4, 8, <<>>)>>,
                      <<"body", Ast("constructor_body", "{ init(); }", 4, 9, 4, 20, <<
                          <<"", Ast("expression_statement", "init();", 4, 11, 4, 18, <<
                              <<"", Ast("method_invocation", "init()", 4, 11, 4, 17, <<
                                  <<"name", Leaf("identifier", "init", 4, 11, 15)>>,
                                  <<"arguments", Ast("argument_list", "()", 4, 15, 4, 17,
                                                     <<>>)>> >>)>> >>)>> >>)>> >>)>>,
                  <<"", Ast("method_declaration", "void main(String args) {..}", 5, 2, 5, 38, <<
                      <<"type", Leaf("void_type", "void", 5, 2, 6)>>,
                      <<"name", Leaf("identifier", "main", 5, 7, 11)>>,
                      <<"parameters", Ast("formal_parameters", "(String args)", 5, 11, 5, 24, <<
                          <<"", Ast("formal_parameter", "String args", 5, 12, 5, 23, <<
                              <<"type", Leaf("type_identifier", "String", 5, 12, 18)>>,
                              <<"name", Leaf("identifier", "args", 5, 19, 23)>> >>)>> >>)>>,
                      <<"body", Ast("block", "{ helper(); }", 5, 25, 5, 38, <<
                          <<"", Ast("expression_statement", "helper();", 5, 27, 5, 36, <<
                              <<"", Ast("method_invocation", "helper()", 5, 27, 5, 35, <<
                                  <<"name", Leaf("identifier", "helper", 5, 27, 33)>>,
                                  <<"arguments", Ast("argument_list", "()", 5, 33, 5, 35,
                                                     <<>>)>> >>)>> >>)>> >>)>> >>)>>,
                  <<"", Ast("method_declaration", "void helper() {}", 6, 2, 6, 18, <<
                      <<"name", Leaf("identifier", "helper", 6, 7, 13)>>,
                      <<"parameters", Ast("formal_parameters", "()", 6, 13, 6, 15, <<>>)>>,
                      <<"body", Ast("block", "{}", 6, 16, 6, 18, <<>>)>> >>)>> >>)>> >>)>>,
      <<"", Ast("interface_declaration", "interface Svc { void run(); }", 8, 0, 8, 29, <<
              <<"name", Leaf("identifier", "Svc", 8, 10, 13)>>,
              <<"body", Ast("interface_body", "{ void run(); }", 8, 14, 8, 29, <<
                  <<"", Ast("method_declaration", "void run();", 8, 16, 8, 27, <<
                      <<"name", Leaf("identifier", "run", 8, 21, 24)>>,
                      <<"parameters", Ast("formal_parameters", "()", 8, 24, 8, 26, <<>>)>>
                    >>)>> >>)>> >>)>> >>)

\* the contents of files: the text, standing for itself, and the tree each
\* grammar yields for it (none when the parser gives no tree)
GoMainSource == [text |-> "go:main", language |-> "go", tree |-> {GoMainTree}]
GoLibSource == [text |-> "go:lib", language |-> "go", tree |-> {GoLibTree}]
GoBareSource == [text |-> "go:bare", language |-> "go", tree |-> {GoBareTree}]
JavaMainSource == [text |-> "java:main", language |-> "java", tree |-> {JavaMainTree}]
NoTreeSource == [text |-> "cancelled", language |-> "go", tree |-> {}]

Sources == {GoMainSource, GoLibSource, GoBareSource, JavaMainSource, NoTreeSource}

(***************************************************************************)
(* Languages and the two registries: languages/mod.rs and core/registry.rs *)
(***************************************************************************)
\* a LanguageSupport implementation: its language_id() and file_extensions()
LanguageSupport(language_id, file_extensions) ==
    [language_id |-> language_id, file_extensions |-> file_extensions]

JavaLanguage == LanguageSupport("java", <<".java">>)
GoLanguage == LanguageSupport("go", <<".go">>)

\* let ext = if extension.starts_with('.') { extension } else { "." + extension }
NormalizeExtension(extension) ==
    IF extension # "" /\ SubSeq(extension, 1, 1) = "."
    THEN extension
    ELSE "." \o extension

\* core/registry.rs: LanguageRegistry::empty, the two HashMaps as functions
registry_empty == [languages |-> <<>>, extension_map |-> <<>>]

RECURSIVE MapExtensions(_, _, _, _)
\* for ext in language.file_extensions() { extension_map.insert(ext, id) }
MapExtensions(extension_map, exts, id, i) ==
    IF i > Len(exts) THEN extension_map
    ELSE MapExtensions([e \in (DOMAIN extension_map) \cup {exts[i]} |->
                           IF e = exts[i] THEN id ELSE extension_map[e]],
                       exts, id, i + 1)

\* core/registry.rs: LanguageRegistry::register
registry_register(reg, language) ==
    LET id == language.language_id
    IN [languages |-> [k \in (DOMAIN reg.languages) \cup {id} |->
                          IF k = id THEN language ELSE reg.languages[k]],
        extension_map |-> MapExtensions(reg.extension_map, language.file_extensions, id, 1)]

\* core/registry.rs: LanguageRegistry::get
registry_get(reg, language_id) ==
    IF language_id \in DOMAIN reg.languages THEN {reg.languages[language_id]} ELSE {}

\* core/registry.rs: LanguageRegistry::get_by_extension
registry_get_by_extension(reg, extension) ==
    LET ext == NormalizeExtension(extension)
    IN IF ext \in DOMAIN reg.extension_map
       THEN registry_get(reg, reg.extension_map[ext])
       ELSE {}

\* core/registry.rs: LanguageRegistry::is_supported
registry_is_supported(reg, extension) == registry_get_by_extension(reg, extension) # {}

\* languages/mod.rs: the Vec of a registry before any register
languages_empty == <<>>

\* languages/mod.rs: LanguageRegistry::register
languages_register(languages, language) == Append(languages, language)

\* languages/mod.rs: LanguageRegistry::new
languages_new == languages_register(languages_register(languages_empty, JavaLanguage),
                                    GoLanguage)

\* self.languages.iter().find(pred): the first language of the Vec in a set
FindFirst(languages, S) ==
    LET at == {i \in DOMAIN languages : languages[i] \in S}
    IN IF at = {} THEN {} ELSE {languages[Min(at)]}

\* languages/mod.rs: LanguageRegistry::get
languages_get(languages, language_id) ==
    FindFirst(languages, {l \in {languages[i] : i \in DOMAIN languages} :
                             l.language_id = language_id})

\* languages/mod.rs: LanguageRegistry::get_by_extension
languages_get_by_extension(languages, extension) ==
    LET ext == NormalizeExtension(extension)
    IN FindFirst(languages, {l \in {languages[i] : i \in DOMAIN languages} :
                                \E k \in DOMAIN l.file_extensions :
                                   l.file_extensions[k] = ext})

\* the languages a caller registers: the two built in, one with two
\* extensions, and one that declares its extension without the dot
KotlinLanguage == LanguageSupport("kotlin", <<".kt", ".kts">>)
PythonLanguage == LanguageSupport("python", <<"py">>)
RegisteredLanguages == {JavaLanguage, GoLanguage, KotlinLanguage, PythonLanguage}

Extensions == {"java", "go", "kt", "kts", "py", "rs", ""}
LanguageIds == {"java", "go", "kotlin", "python", "rust"}

\* the registries of a process, both empty
InitRegistry ==
    /\ projects = {} /\ files = {} /\ nodes = {} /\ edges = {}
    /\ now = 0
    /\ ret = [op |-> "none"]
    /\ wk = [registry |-> registry_empty, languages |-> languages_empty]

\* register on both registries, of a language whose id and extensions no
\* registered language has
Register(language) ==
    /\ \A i \in DOMAIN wk.languages :
          /\ wk.languages[i].language_id # language.language_id
          /\ \A j \in DOMAIN wk.languages[i].file_extensions,
                k \in DOMAIN language.file_extensions :
                wk.languages[i].file_extensions[j] # language.file_extensions[k]
    /\ wk' = [registry |-> registry_register(wk.registry, language),
              languages |-> languages_register(wk.languages, language)]
    /\ ret' = [op |-> "register", language |-> language]
    /\ UNCHANGED <<projects, files, nodes, edges, now>>

\* get on both registries
LookupId(language_id) ==
    /\ ret' = [op |-> "get", language_id |-> language_id,
               registry |-> registry_get(wk.registry, language_id),
               languages |-> languages_get(wk.languages, language_id)]
    /\ UNCHANGED <<projects, files, nodes, edges, now, wk>>

\* get_by_extension on both registries and is_supported, for an extension
\* passed without and with the leading dot
LookupExtension(e) ==
    /\ ret' = [op |-> "get_by_extension", extension |-> e,
               registry |-> registry_get_by_extension(wk.registry, e),
               registry_dot |-> registry_get_by_extension(wk.registry, "." \o e),
               languages |-> languages_get_by_extension(wk.languages, e),
               languages_dot |-> languages_get_by_extension(wk.languages, "." \o e),
               is_supported |-> registry_is_supported(wk.registry, e)]
    /\ UNCHANGED <<projects, files, nodes, edges, now, wk>>

NextRegistry ==
    \/ \E language \in RegisteredLanguages : Register(language)
    \/ \E language_id \in LanguageIds : LookupId(language_id)
    \/ \E e \in Extensions : LookupExtension(e)

SpecRegistry == InitRegistry /\ [][NextRegistry]_vars

(***************************************************************************)
(* The parser: core/parser.rs.  The file system is a function from the     *)
(* paths that exist to the files, a file being readable or not and having  *)
(* a source as its content.                                                *)
(***************************************************************************)
File(readable, source) == [readable |-> readable, source |-> source]

\* compute_hash: the SHA-256 of the content in hex, one digest per content
compute_hash(content) == "sha256(" \o content \o ")"

\* the tree of a text that is not of the grammar: nothing but an ERROR node
ErrorTree == Ast("ERROR", "", 0, 0, 0, 0, <<>>)

\* parser.set_language(grammar); parser.parse(content, None)
tree_sitter_parse(language_id, source) ==
    IF source.tree = {} THEN {}
    ELSE IF source.language = language_id THEN source.tree
    ELSE {ErrorTree}

\* extract_graph of GoLanguage: the extractor after extract(root)
go_extractor_run(source, tree) == go_extract(GoGraphExtractor_new(source), tree)

\* extract_graph of JavaLanguage: the extractor after extract(root)
java_extractor_run(source, tree) == java_extract(JavaGraphExtractor_new(source), tree)

\* the extractor of lang.extract_graph(source, tree) when it returns
extractor_run(lang, source, tree) ==
    IF lang.language_id = "go"
    THEN go_extractor_run(source, tree)
    ELSE java_extractor_run(source, tree)

\* lang.extract_graph(source, tree): Ok((extractor.nodes, extractor.edges))
extract_graph(lang, source, tree) ==
    Strictly(extractor_run(lang, source, tree), LAMBDA extractor :
    [nodes |-> extractor.nodes, edges |-> extractor.edges])

ParseErr(error) == [ok |-> FALSE, error |-> error]

\* CodeParser::parse_file
parse_file(registry, disk, path, language_id) ==
    IF path \notin DOMAIN disk \/ ~ disk[path].readable
    THEN ParseErr("Failed to read file")
    ELSE LET content == disk[path].source
             content_hash == compute_hash(content.text)
             lang == languages_get(registry, language_id)
         IN IF lang = {} THEN ParseErr("Unsupported language")
            ELSE LET tree == tree_sitter_parse(language_id, content)
                 IN IF tree = {} THEN ParseErr("Failed to parse file")
                    ELSE Strictly(extract_graph(The(lang), content.text, The(tree)),
                                  LAMBDA g :
                                  [ok |-> TRUE,
                                   graph_data |-> FileGraphData(g.nodes, g.edges,
                                                                content_hash)])

(***************************************************************************)
(* Extractions: parse_file on a file and extract_graph on a tree.  The     *)
(* process keeps the result of one earlier call to compare the later ones  *)
(* with.                                                                   *)
(***************************************************************************)
ExtractPath == "/b.go"
ParseLanguageIds == {"java", "go", "rust"}

\* the file system at a call of parse_file: the file absent, unreadable, or
\* readable with a content
ExtractDisks ==
    {<<>>, [p \in {ExtractPath} |-> File(FALSE, GoMainSource)]}
    \cup {[p \in {ExtractPath} |-> File(TRUE, source)] : source \in Sources}

\* what a call returned
Extraction(op, language_id, text, ok, graph_data) ==
    [op |-> op, language_id |-> language_id, text |-> text, ok |-> ok,
     nodes |-> graph_data.nodes, edges |-> graph_data.edges,
     content_hash |-> graph_data.content_hash]

InitExtract ==
    /\ projects = {} /\ files = {} /\ nodes = {} /\ edges = {}
    /\ now = 0
    /\ ret = NoCall
    /\ wk = [probe |-> {}]

\* the process after a call that returned x: x is kept for later
\* comparison or not
Kept(x) == {[wk EXCEPT !.probe = IF keep /\ x.ok THEN {x} ELSE @] : keep \in BOOLEAN}

CallParseFile(disk, language_id) ==
    LET x == Strictly(parse_file(languages_new, disk, ExtractPath, language_id),
                      LAMBDA r :
                      Extraction("parse_file", language_id,
                                 IF ExtractPath \in DOMAIN disk
                                 THEN disk[ExtractPath].source.text ELSE NoneStr,
                                 r.ok,
                                 IF r.ok THEN r.graph_data
                                 ELSE FileGraphData(<<>>, <<>>, NoneStr)))
    IN /\ ret' = x
       /\ wk' \in Kept(x)
       /\ UNCHANGED <<projects, files, nodes, edges, now>>

\* extract_graph of a language on a source of the language and its tree
CallExtractGraph(lang, source) ==
    /\ source.tree # {}
    /\ source.language = lang.language_id
    /\ LET x == Strictly(extract_graph(lang, source.text, The(source.tree)),
                         LAMBDA g :
                         Extraction("extract_graph", lang.language_id, source.text, TRUE,
                                    FileGraphData(g.nodes, g.edges, NoneStr)))
       IN /\ ret' = x
          /\ wk' \in Kept(x)
    /\ UNCHANGED <<projects, files, nodes, edges, now>>

NextExtract ==
    \/ \E disk \in ExtractDisks, language_id \in ParseLanguageIds :
          CallParseFile(disk, language_id)
    \/ \E lang \in {JavaLanguage, GoLanguage}, source \in Sources :
          CallExtractGraph(lang, source)

SpecExtract == InitExtract /\ [][NextExtract]_vars

(***************************************************************************)
(* The graph builder: core/graph.rs                                        *)
(***************************************************************************)
create_or_get_project(db, name, root_path) ==
    LET existing == get_project_by_path(db, root_path)
    IN IF existing # {}
       THEN [db |-> db, ok |-> TRUE, id |-> (CHOOSE p \in existing : TRUE).id]
       ELSE insert_project(db, [id |-> 0, name |-> name, root_path |-> root_path])

\* the change test always answering "changed"
Unchanged_never(existing, graph_data) == FALSE

\* the change test of store_file_graph: existing.content_hash == graph_data.content_hash
Unchanged(existing, graph_data) == existing.content_hash = graph_data.content_hash

FileRecord(project_id, path, language, content_hash, t) ==
    [id |-> 0, project_id |-> project_id, path |-> path, language |-> language,
     content_hash |-> content_hash, parsed_at |-> t]

NodeRecord(file_id, node_data) ==
    [id |-> 0, file_id |-> file_id, node_type |-> node_data.node_type,
     name |-> node_data.name, qualified_name |-> node_data.qualified_name,
     start_line |-> node_data.start_line, start_column |-> node_data.start_column,
     end_line |-> node_data.end_line, end_column |-> node_data.end_column,
     attributes |-> node_data.attributes]

\* an Edge row with its two endpoints exchanged
EdgeRecord_swapped(source_id, target_id, edge_type, attributes) ==
    [id |-> 0, source_id |-> target_id, target_id |-> source_id,
     edge_type |-> edge_type, attributes |-> attributes]

EdgeRecord(source_id, target_id, edge_type, attributes) ==
    [id |-> 0, source_id |-> source_id, target_id |-> target_id,
     edge_type |-> edge_type, attributes |-> attributes]

\* the lookup answering with id 0 for an index the map does not hold
NodeIdMapGet_unchecked(node_id_map, idx) ==
    IF idx + 1 \in DOMAIN node_id_map THEN {node_id_map[idx + 1]} ELSE {0}

\* node_id_map.get(&idx): node_id_map is the sequence of the ids inserted so
\* far, local index i at position i + 1
NodeIdMapGet(node_id_map, idx) ==
    IF idx + 1 \in DOMAIN node_id_map THEN {node_id_map[idx + 1]} ELSE {}

RECURSIVE InsertNodes(_, _, _, _, _)
\* the loop "for (idx, node_data) in graph_data.nodes": stops at the first
\* insert_node that fails
InsertNodes(db, file_id, ns, i, node_id_map) ==
    IF i > Len(ns)
    THEN [db |-> db, ok |-> TRUE, node_id_map |-> node_id_map]
    ELSE LET r == insert_node(db, NodeRecord(file_id, ns[i]))
         IN IF ~ r.ok
            THEN [db |-> r.db, ok |-> FALSE, node_id_map |-> node_id_map]
            ELSE InsertNodes(r.db, file_id, ns, i + 1, Append(node_id_map, r.id))

RECURSIVE InsertEdges(_, _, _, _)
\* the loop "for edge_data in graph_data.edges": an edge with an index that
\* node_id_map does not hold is skipped; stops at the first insert_edge that fails
InsertEdges(db, es, j, node_id_map) ==
    IF j > Len(es)
    THEN [db |-> db, ok |-> TRUE]
    ELSE LET source == NodeIdMapGet(node_id_map, es[j].source_idx)
             target == NodeIdMapGet(node_id_map, es[j].target_idx)
         IN IF source = {} \/ target = {}
            THEN InsertEdges(db, es, j + 1, node_id_map)
            ELSE LET r == insert_edge(db, EdgeRecord(CHOOSE s \in source : TRUE,
                                                     CHOOSE t \in target : TRUE,
                                                     es[j].edge_type, es[j].attributes))
                 IN IF ~ r.ok
                    THEN [db |-> r.db, ok |-> FALSE]
                    ELSE InsertEdges(r.db, es, j + 1, node_id_map)

\* store_file_graph(project_id, file_path, language, graph_data) at time t:
\* the store it leaves, whether it returned Ok, and the file id it returned
store_file_graph(db, project_id, file_path, language, graph_data, t) ==
    LET existing == get_file_by_path(db, project_id, file_path)
        ex == CHOOSE f \in existing : TRUE
    IN IF existing # {} /\ Unchanged(ex, graph_data)
       THEN [db |-> db, ok |-> TRUE, id |-> ex.id]
       ELSE LET db1 == IF existing # {} THEN delete_file_data(db, ex.id) ELSE db
                rf == insert_file(db1, FileRecord(project_id, file_path, language,
                                                  graph_data.content_hash, t))
            IN IF ~ rf.ok
               THEN [db |-> rf.db, ok |-> FALSE, id |-> 0]
               ELSE LET rn == InsertNodes(rf.db, rf.id, graph_data.nodes, 1, <<>>)
                    IN IF ~ rn.ok
                       THEN [db |-> rn.db, ok |-> FALSE, id |-> 0]
                       ELSE LET re == InsertEdges(rn.db, graph_data.edges, 1, rn.node_id_map)
                            IN [db |-> re.db, ok |-> re.ok,
                                id |-> IF re.ok THEN rf.id ELSE 0]

RECURSIVE ResolveAll(_, _, _, _)
\* The loop "for (ref_node_id, ref_name) in unresolved" of
\* build_cross_references: the set of results it can produce, one for each way
\* find_definition_by_name can answer.  A result is the store and an ok flag.
ResolveAll(db, project_id, unresolved, i) ==
    IF i > Len(unresolved)
    THEN {[db |-> db, ok |-> TRUE]}
    ELSE LET ref == CHOOSE n \in db.nodes : n.id = unresolved[i]
             defs == find_definition_by_name(db, project_id, ref.name)
         IN IF defs = {}
            THEN ResolveAll(db, project_id, unresolved, i + 1)
            ELSE UNION {LET r == insert_edge(db, EdgeRecord(ref.id, d, "references", NoneStr))
                        IN IF ~ r.ok
                           THEN {[db |-> r.db, ok |-> FALSE]}
                           ELSE ResolveAll(r.db, project_id, unresolved, i + 1)
                        : d \in defs}

\* build_cross_references(project_id): the results it can produce.  The
\* unresolved rows are visited in the order of their ids.  The final
\* update_project_timestamp writes projects.updated_at only.
build_cross_references(db, project_id) ==
    LET unresolved == SortedSeq({n.id : n \in get_unresolved_references(db, project_id)})
    IN ResolveAll(db, project_id, unresolved, 1)

(***************************************************************************)
(* One builder on one connection: the calls are made one at a time         *)
(***************************************************************************)

Idle == [w \in {} |-> 0]

Init ==
    /\ projects = {}
    /\ files = {}
    /\ nodes = {}
    /\ edges = {}
    /\ now = 0
    /\ ret = NoCall
    /\ wk = Idle

SetDB(db) ==
    /\ projects' = db.projects
    /\ files' = db.files
    /\ nodes' = db.nodes
    /\ edges' = db.edges

CallCreateOrGetProject(name, root_path) ==
    LET r == create_or_get_project(DB, name, root_path)
    IN /\ SetDB(r.db)
       /\ ret' = [op |-> "create_or_get_project", name |-> name,
                  root_path |-> root_path, ok |-> r.ok, id |-> r.id]
       /\ UNCHANGED <<now, wk>>

\* the clock has advanced when a File row was written
CallStoreFileGraph(project_id, file_path, graph_data) ==
    LET r == store_file_graph(DB, project_id, file_path, LanguageOf(file_path),
                              graph_data, now + 1)
        wrote == r.db.files # files
    IN /\ wrote => now < MaxTime
       /\ SetDB(r.db)
       /\ now' = IF wrote THEN now + 1 ELSE now
       /\ ret' = [op |-> "store_file_graph", project_id |-> project_id,
                  file_path |-> file_path, graph_data |-> graph_data,
                  ok |-> r.ok, id |-> r.id]
       /\ UNCHANGED wk

CallBuildCrossReferences(project_id) ==
    \E r \in build_cross_references(DB, project_id) :
        /\ SetDB(r.db)
        /\ ret' = [op |-> "build_cross_references", project_id |-> project_id,
                   ok |-> r.ok]
        /\ UNCHANGED <<now, wk>>

\* the create_or_get_project calls made: either name for the first root
\* path, the first name for the second
ProjectCalls ==
    {c \in ProjectNames \X RootPaths : c[2] = "/r1" \/ c[1] = "n1"}

Next ==
    \/ \E c \in ProjectCalls : CallCreateOrGetProject(c[1], c[2])
    \/ \E c \in StoreCalls : CallStoreFileGraph(c[1], c[2], c[3])
    \/ \E project_id \in ProjectIds : CallBuildCrossReferences(project_id)

Spec == Init /\ [][Next]_vars

(***************************************************************************)
(* Two builders, each on its own connection to one database, both calling  *)
(* store_file_graph for the same (project, path).  No statement of         *)
(* store_file_graph runs in a transaction, so each statement commits on    *)
(* its own and the statements of the two calls interleave.                 *)
(***************************************************************************)
Workers == {1, 2}

ConcProject == 1
ConcPath == "/a.java"

\* the stores the race can start from: FragB stored at ConcPath in a new
\* project, alone or followed by FragC at the other path
ConcStores ==
    LET p == create_or_get_project(EmptyDB, "n1", "/r1").db
        s1 == store_file_graph(p, ConcProject, ConcPath, LanguageOf(ConcPath), FragB, 1).db
        s2 == store_file_graph(s1, ConcProject, "/b.go", LanguageOf("/b.go"), FragC, 2).db
    IN {[db |-> s1, now |-> 1], [db |-> s2, now |-> 2]}

\* the locals of a call that has not started
WorkerStart(graph_data) ==
    [pc |-> "get_file", graph_data |-> graph_data, existing |-> {},
     file_id |-> 0, node_id_map |-> <<>>, k |-> 1, id |-> 0]

InitConc ==
    /\ \E s \in ConcStores :
          /\ projects = s.db.projects
          /\ files = s.db.files
          /\ nodes = s.db.nodes
          /\ edges = s.db.edges
          /\ now = s.now
    /\ ret = NoCall
    /\ wk \in [Workers -> {WorkerStart(g) : g \in {FragA, FragC}}]

\* self.db.get_file_by_path(...) and the change test
WkGetFile(w) ==
    /\ wk[w].pc = "get_file"
    /\ LET existing == get_file_by_path(DB, ConcProject, ConcPath)
           ex == CHOOSE f \in existing : TRUE
       IN wk' = [wk EXCEPT ![w].existing = existing,
                           ![w].pc = IF existing = {} THEN "insert_file"
                                     ELSE IF Unchanged(ex, wk[w].graph_data) THEN "done"
                                     ELSE "delete_nodes",
                           ![w].id = IF existing # {} /\ Unchanged(ex, wk[w].graph_data)
                                     THEN ex.id ELSE 0]
    /\ UNCHANGED <<projects, files, nodes, edges, now, ret>>

\* first statement of self.db.delete_file_data(existing.id)
WkDeleteNodes(w) ==
    /\ wk[w].pc = "delete_nodes"
    /\ SetDB(DeleteNodesOfFile(DB, (CHOOSE f \in wk[w].existing : TRUE).id))
    /\ wk' = [wk EXCEPT ![w].pc = "delete_file"]
    /\ UNCHANGED <<now, ret>>

\* second statement of self.db.delete_file_data(existing.id)
WkDeleteFile(w) ==
    /\ wk[w].pc = "delete_file"
    /\ SetDB(DeleteFileRow(DB, (CHOOSE f \in wk[w].existing : TRUE).id))
    /\ wk' = [wk EXCEPT ![w].pc = "insert_file"]
    /\ UNCHANGED <<now, ret>>

\* self.db.insert_file(&file)?
WkInsertFile(w) ==
    /\ wk[w].pc = "insert_file"
    /\ LET r == insert_file(DB, FileRecord(ConcProject, ConcPath, LanguageOf(ConcPath),
                                           wk[w].graph_data.content_hash, now + 1))
       IN /\ SetDB(r.db)
          /\ now' = now + 1
          /\ wk' = [wk EXCEPT ![w].pc = IF r.ok THEN "insert_node" ELSE "failed",
                              ![w].file_id = r.id]
    /\ UNCHANGED ret

\* one turn of the loop over graph_data.nodes, or leaving it
WkInsertNode(w) ==
    /\ wk[w].pc = "insert_node"
    /\ IF wk[w].k > Len(wk[w].graph_data.nodes)
       THEN /\ wk' = [wk EXCEPT ![w].pc = "insert_edge", ![w].k = 1]
            /\ UNCHANGED <<projects, files, nodes, edges>>
       ELSE LET r == insert_node(DB, NodeRecord(wk[w].file_id,
                                                wk[w].graph_data.nodes[wk[w].k]))
            IN /\ SetDB(r.db)
               /\ wk' = IF r.ok
                        THEN [wk EXCEPT ![w].k = @ + 1,
                                        ![w].node_id_map = Append(@, r.id)]
                        ELSE [wk EXCEPT ![w].pc = "failed"]
    /\ UNCHANGED <<now, ret>>

\* one turn of the loop over graph_data.edges, or leaving it with Ok(file_id)
WkInsertEdge(w) ==
    /\ wk[w].pc = "insert_edge"
    /\ IF wk[w].k > Len(wk[w].graph_data.edges)
       THEN /\ wk' = [wk EXCEPT ![w].pc = "done", ![w].id = wk[w].file_id]
            /\ UNCHANGED <<projects, files, nodes, edges>>
       ELSE LET edge_data == wk[w].graph_data.edges[wk[w].k]
                source == NodeIdMapGet(wk[w].node_id_map, edge_data.source_idx)
                target == NodeIdMapGet(wk[w].node_id_map, edge_data.target_idx)
            IN IF source = {} \/ target = {}
               THEN /\ wk' = [wk EXCEPT ![w].k = @ + 1]
                    /\ UNCHANGED <<projects, files, nodes, edges>>
               ELSE LET r == insert_edge(DB, EdgeRecord(CHOOSE x \in source : TRUE,
                                                        CHOOSE x \in target : TRUE,
                                                        edge_data.edge_type,
                                                        edge_data.attributes))
                    IN /\ SetDB(r.db)
                       /\ wk' = IF r.ok
                                THEN [wk EXCEPT ![w].k = @ + 1]
                                ELSE [wk EXCEPT ![w].pc = "failed"]
    /\ UNCHANGED <<now, ret>>

NextConc ==
    \/ \E w \in Workers : WkGetFile(w)
    \/ \E w \in Workers : WkDeleteNodes(w)
    \/ \E w \in Workers : WkDeleteFile(w)
    \/ \E w \in Workers : WkInsertFile(w)
    \/ \E w \in Workers : WkInsertNode(w)
    \/ \E w \in Workers : WkInsertEdge(w)

SpecConc == InitConc /\ [][NextConc]_vars

(***************************************************************************)
(* One builder whose statements can fail.  Every statement of              *)
(* store_file_graph is a call on rusqlite that is followed by `?`: when    *)
(* the statement returns an error (the disk is full, the database is       *)
(* locked, the file cannot be written) the call returns it at that point,  *)
(* and what the earlier statements wrote stays, since none of them runs in *)
(* a transaction.  The calls are made one after the other at ConcPath.     *)
(***************************************************************************)
Builder == 1

\* the fragments stored over the FragB of ConcStores
FaultFragments == {FragA, FragB, FragC}

InitFault ==
    /\ \E s \in ConcStores :
          /\ projects = s.db.projects
          /\ files = s.db.files
          /\ nodes = s.db.nodes
          /\ edges = s.db.edges
          /\ now = s.now
    /\ ret = NoCall
    /\ wk \in [{Builder} -> {WorkerStart(g) : g \in FaultFragments}]

\* the next step of worker w executes a statement on the database
AtStatement(w) ==
    \/ wk[w].pc \in {"get_file", "delete_nodes", "delete_file", "insert_file"}
    \/ /\ wk[w].pc = "insert_node"
       /\ wk[w].k <= Len(wk[w].graph_data.nodes)
    \/ /\ wk[w].pc = "insert_edge"
       /\ wk[w].k <= Len(wk[w].graph_data.edges)
       /\ NodeIdMapGet(wk[w].node_id_map, wk[w].graph_data.edges[wk[w].k].source_idx) # {}
       /\ NodeIdMapGet(wk[w].node_id_map, wk[w].graph_data.edges[wk[w].k].target_idx) # {}

\* the statement returns Err and `?` returns it from store_file_graph
WkStatementFails(w) ==
    /\ AtStatement(w)
    /\ wk' = [wk EXCEPT ![w].pc = "failed"]
    /\ ret' = [op |-> "store_file_graph", project_id |-> ConcProject,
               file_path |-> ConcPath, graph_data |-> wk[w].graph_data,
               ok |-> FALSE, id |-> 0]
    /\ UNCHANGED <<projects, files, nodes, edges, now>>

\* the next call of store_file_graph, after the last one returned
WkCallAgain(w, graph_data) ==
    /\ wk[w].pc \in {"done", "failed"}
    /\ now < MaxTime
    /\ wk' = [wk EXCEPT ![w] = WorkerStart(graph_data)]
    /\ UNCHANGED <<projects, files, nodes, edges, now, ret>>

NextFault ==
    \/ WkGetFile(Builder)
    \/ WkDeleteNodes(Builder)
    \/ WkDeleteFile(Builder)
    \/ WkInsertFile(Builder)
    \/ WkInsertNode(Builder)
    \/ WkInsertEdge(Builder)
    \/ WkStatementFails(Builder)
    \/ \E g \in FaultFragments : WkCallAgain(Builder, g)

SpecFault == InitFault /\ [][NextFault]_vars

(***************************************************************************)
(* The query engine: core/query.rs, on a store the builder has filled      *)
(***************************************************************************)
\* largest depth asked of get_callgraph
MaxDepth == 2

Depths == 0..MaxDepth
Directions == {"callers", "callees", "both", "up"}
Symbols == {"main", "helper", "leaf", "p.main", "nosuch"}
\* a limit no search of the model reaches
LargeLimit == 100

Limits == {0, 1, 2, LargeLimit}
SearchQueries == {"User", "user", "Service", "a_b", "com.", "%", "zzz", ""}
\* symbol_type: None, or Some of a kind
SymbolTypes == {{}, {"class"}, {"variable"}, {"Class"}}
\* the projects of the store and an id no project has
QueryProjects == ProjectIds \cup {3}
QueryPositions ==
    {<<6, 1>>, <<6, 5>>, <<5, 0>>, <<1, 1>>, <<20, 2>>, <<25, 1>>,
     <<2, 6>>, <<2, 8>>, <<2, 2>>, <<3, 1>>, <<3, 2>>}

RECURSIVE StoreAll(_, _, _)
\* the store after the store_file_graph calls of a sequence of
\* (project, path, fragment) triples, the i-th at time t + i
StoreAll(db, calls, t) ==
    IF calls = <<>>
    THEN db
    ELSE StoreAll(store_file_graph(db, calls[1][1], calls[1][2], LanguageOf(calls[1][2]),
                                   calls[1][3], t + 1).db,
                  Tail(calls), t + 1)

\* the runs of parse_project that fill the stores the queries are asked on
QuerySetups ==
    {<<>>,
     <<<<1, "/a.java", FragA>>, <<1, "/b.go", FragB>>>>,
     <<<<1, "/a.java", FragS>>, <<1, "/b.go", FragG>>>>,
     <<<<1, "/a.java", FragG>>, <<2, "/a.java", FragC>>>>,
     <<<<1, "/a.java", FragU>>, <<2, "/b.go", FragU>>>>,
     <<<<1, "/a.java", FragR>>, <<1, "/b.go", FragB>>>>}

\* the stores after both projects were created, the files of a setup were
\* stored and build_cross_references has run on the first project
QueryStores ==
    LET p1 == create_or_get_project(EmptyDB, "n1", "/r1").db
        p2 == create_or_get_project(p1, "n1", "/r2").db
    IN UNION {{[db |-> r.db, now |-> Len(c)] :
                 r \in build_cross_references(StoreAll(p2, c, 0), 1)} : c \in QuerySetups}

InitQuery ==
    /\ \E s \in QueryStores :
          /\ projects = s.db.projects
          /\ files = s.db.files
          /\ nodes = s.db.nodes
          /\ edges = s.db.edges
          /\ now = s.now
    /\ ret = NoCall
    /\ wk = Idle

\* file_info.map(|f| f.path).unwrap_or_default()
FilePathOf(db, file_id) ==
    IF get_file(db, file_id) = {} THEN ""
    ELSE (CHOOSE f \in get_file(db, file_id) : TRUE).path

SymbolInfo(db, n) ==
    [name |-> n.name, qualified_name |-> n.qualified_name, node_type |-> n.node_type,
     file |-> FilePathOf(db, n.file_id), line |-> n.start_line, column |-> n.start_column]

\* the loop pushing one SymbolInfo for each row
SymbolInfos(db, rows) == [i \in 1..Len(rows) |-> SymbolInfo(db, rows[i])]

collect_callers(db, node_id, depth) ==
    IF depth = 0 THEN <<>> ELSE SymbolInfos(db, find_callers(db, node_id))

collect_callees(db, node_id, depth) ==
    IF depth = 0 THEN <<>> ELSE SymbolInfos(db, find_callees(db, node_id))

\* get_callgraph once find_symbol_by_name has answered with node n
get_callgraph(db, n, depth, direction) ==
    [center |-> SymbolInfo(db, n),
     callers |-> IF direction = "callers" \/ direction = "both"
                 THEN collect_callers(db, n.id, depth) ELSE <<>>,
     callees |-> IF direction = "callees" \/ direction = "both"
                 THEN collect_callees(db, n.id, depth) ELSE <<>>]

SymbolLocation(db, n) ==
    [file |-> FilePathOf(db, n.file_id), line |-> n.start_line, column |-> n.start_column,
     node_type |-> n.node_type, name |-> n.name, qualified_name |-> n.qualified_name,
     context |-> NoneStr]

\* .optional() of a LIMIT 1 query: None, or Some of one of the rows
Optional(rows) == IF rows = {} THEN {{}} ELSE {{n} : n \in rows}

\* find_definition once find_node_at_position has answered node and, for
\* Some(n), find_reference_target(n.id) has answered target
find_definition(db, node, target) ==
    IF node = {}
    THEN [found |-> FALSE, definition |-> {}]
    ELSE IF target # {}
         THEN [found |-> TRUE,
               definition |-> {SymbolLocation(db, CHOOSE t \in target : TRUE)}]
         ELSE [found |-> TRUE,
               definition |-> {SymbolLocation(db, CHOOSE n \in node : TRUE)}]

\* find_references once find_node_at_position has answered node
find_references(db, node) ==
    IF node = {}
    THEN [count |-> 0, references |-> <<>>]
    ELSE LET refs == find_all_references(db, (CHOOSE n \in node : TRUE).id)
             references == [i \in 1..Len(refs) |-> SymbolLocation(db, refs[i])]
         IN [count |-> Len(references), references |-> references]

\* QueryExecutor::search_symbols on the rows the store answered
SymbolSearchResult(db, rows) ==
    LET symbols == SymbolInfos(db, rows)
    IN [count |-> Len(symbols), symbols |-> symbols]

CallFindDefinition(project_id, file_path, line, column) ==
    /\ \E node \in Optional(find_node_at_position(DB, project_id, file_path, line, column)) :
       \E target \in (IF node = {} THEN {{}}
                      ELSE Optional(find_reference_target(DB, (CHOOSE n \in node : TRUE).id))) :
          ret' = [op |-> "find_definition", project_id |-> project_id,
                  file_path |-> file_path, line |-> line, column |-> column,
                  ok |-> TRUE, node |-> node,
                  result |-> find_definition(DB, node, target)]
    /\ UNCHANGED <<projects, files, nodes, edges, now, wk>>

CallFindReferences(project_id, file_path, line, column) ==
    /\ \E node \in Optional(find_node_at_position(DB, project_id, file_path, line, column)) :
          ret' = [op |-> "find_references", project_id |-> project_id,
                  file_path |-> file_path, line |-> line, column |-> column,
                  ok |-> TRUE, node |-> node,
                  result |-> find_references(DB, node)]
    /\ UNCHANGED <<projects, files, nodes, edges, now, wk>>

CallSearchSymbols(project_id, query, symbol_type, limit) ==
    /\ \E rows \in search_symbols(DB, project_id, query, symbol_type, limit) :
          ret' = [op |-> "search_symbols", project_id |-> project_id, query |-> query,
                  symbol_type |-> symbol_type, limit |-> limit,
                  ok |-> TRUE, rows |-> rows,
                  result |-> SymbolSearchResult(DB, rows)]
    /\ UNCHANGED <<projects, files, nodes, edges, now, wk>>

CallFindNodeAtPosition(project_id, file_path, line, column) ==
    LET rows == find_node_at_position(DB, project_id, file_path, line, column)
    IN /\ \E found \in (IF rows = {} THEN {{}} ELSE {{n} : n \in rows}) :
             ret' = [op |-> "find_node_at_position", project_id |-> project_id,
                     file_path |-> file_path, line |-> line, column |-> column,
                     found |-> found]
       /\ UNCHANGED <<projects, files, nodes, edges, now, wk>>

CallGetCallgraph(project_id, symbol, depth, direction) ==
    LET center_node == find_symbol_by_name(DB, project_id, symbol)
    IN /\ IF center_node = {}
          THEN ret' = [op |-> "get_callgraph", project_id |-> project_id,
                       symbol |-> symbol, depth |-> depth, direction |-> direction,
                       ok |-> FALSE]
          ELSE \E n \in center_node :
                  ret' = [op |-> "get_callgraph", project_id |-> project_id,
                          symbol |-> symbol, depth |-> depth, direction |-> direction,
                          ok |-> TRUE, n |-> n,
                          result |-> get_callgraph(DB, n, depth, direction)]
       /\ UNCHANGED <<projects, files, nodes, edges, now, wk>>

NextQuery ==
    \/ \E project_id \in QueryProjects, file_path \in FilePaths, pos \in QueryPositions :
          CallFindNodeAtPosition(project_id, file_path, pos[1], pos[2])
    \/ \E project_id \in QueryProjects, symbol \in Symbols, depth \in Depths,
          direction \in Directions :
          CallGetCallgraph(project_id, symbol, depth, direction)
    \/ \E project_id \in QueryProjects, file_path \in FilePaths, pos \in QueryPositions :
          CallFindDefinition(project_id, file_path, pos[1], pos[2])
    \/ \E project_id \in QueryProjects, file_path \in FilePaths, pos \in QueryPositions :
          CallFindReferences(project_id, file_path, pos[1], pos[2])
    \/ \E project_id \in QueryProjects, query \in SearchQueries,
          symbol_type \in SymbolTypes, limit \in Limits :
          CallSearchSymbols(project_id, query, symbol_type, limit)

SpecQuery == InitQuery /\ [][NextQuery]_vars

(***************************************************************************)
(* The name-based wrapper find_definition_by_symbol of core/query.rs, on a *)
(* project in which more nodes contain a name than its search asks for     *)
(***************************************************************************)
\* the node types find_definition_by_symbol and the specification call
\* definition kinds
DefinitionTypes ==
    {"class", "method", "function", "interface", "struct", "field", "variable"}

\* the limit find_definition_by_symbol passes to search_symbols
DefinitionSearchLimit == 50

RECURSIVE KeptRows(_, _)
\* the sets of k rows out of a set of rows: what a LIMIT k can keep of them
KeptRows(rows, k) ==
    IF k = 0 THEN {{}}
    ELSE IF Cardinality(rows) < k THEN {}
    ELSE IF Cardinality(rows) = k THEN {rows}
    ELSE LET x == CHOOSE r \in rows : TRUE
         IN {T \cup {x} : T \in KeptRows(rows \ {x}, k - 1)} \cup KeptRows(rows \ {x}, k)

\* db.search_symbols(project_id, symbol, None, 50): the lists it can return,
\* as search_symbols with symbol_type None
search_symbols_None(db, project_id, query, limit) ==
    LET rows == SearchMatches(db, project_id, query, {})
    IN {NodeRows(R) : R \in KeptRows(rows, Min({limit, Cardinality(rows)}))}

\* q.ends_with(&format!(".{}", symbol))
EndsWithDot(q, symbol) ==
    /\ Len(q) >= Len(symbol) + 1
    /\ SubSeq(q, Len(q) - Len(symbol), Len(q)) = "." \o symbol

\* name_matches of find_definition_by_symbol
name_matches(node, symbol) ==
    \/ node.name = symbol
    \/ /\ node.qualified_name # NoneStr
       /\ node.qualified_name = symbol \/ EndsWithDot(node.qualified_name, symbol)

RECURSIVE find_definition_by_symbol(_, _, _, _)
\* the loop "for node in nodes" of find_definition_by_symbol from position i
\* of the list search_symbols returned: it returns at the first node of a
\* definition type whose name matches
find_definition_by_symbol(db, rows, symbol, i) ==
    IF i > Len(rows)
    THEN [found |-> FALSE, definition |-> {}]
    ELSE IF rows[i].node_type \in DefinitionTypes /\ name_matches(rows[i], symbol)
         THEN [found |-> TRUE, definition |-> {SymbolLocation(db, rows[i])}]
         ELSE find_definition_by_symbol(db, rows, symbol, i + 1)

\* a function whose body calls helper as many times as the search asks for rows
FragM ==
    FileGraphData(
        <<NodeData("function", "caller", "p.caller", 1, 1, 99, 1)>>
        \o [i \in 1..DefinitionSearchLimit |->
               NodeData("call", "helper", NoneStr, i + 1, 1, i + 1, 8)],
        [i \in 1..DefinitionSearchLimit |-> EdgeData(0, i, "calls")],
        "h8")

\* the stores asked: FragC and FragB in the two files of the first project,
\* or FragM and FragB; FragC in the second project
SymbolStores ==
    LET p1 == create_or_get_project(EmptyDB, "n1", "/r1").db
        p2 == create_or_get_project(p1, "n1", "/r2").db
    IN {StoreAll(p2, <<<<1, "/a.java", g>>, <<1, "/b.go", FragB>>, <<2, "/a.java", FragC>>>>, 0)
           : g \in {FragC, FragM}}

\* the symbols asked for: names of definitions, a qualified name and its
\* tail, a name in the other case, a part of a name, the name of a reference
\* and call only, and a name no node has
DefinitionSymbols ==
    {"helper", "B", "x", "main", "p.B", "B.x", "HELPER", "elp", "caller", "nosuch"}

InitSymbol ==
    /\ \E db \in SymbolStores :
          /\ projects = db.projects
          /\ files = db.files
          /\ nodes = db.nodes
          /\ edges = db.edges
    /\ now = 3
    /\ ret = NoCall
    /\ wk = Idle

CallFindDefinitionBySymbol(project_id, symbol) ==
    /\ \E rows \in search_symbols_None(DB, project_id, symbol, DefinitionSearchLimit) :
          ret' = [op |-> "find_definition_by_symbol", project_id |-> project_id,
                  symbol |-> symbol, ok |-> TRUE, rows |-> rows,
                  result |-> find_definition_by_symbol(DB, rows, symbol, 1)]
    /\ UNCHANGED <<projects, files, nodes, edges, now, wk>>

NextSymbol ==
    \E project_id \in QueryProjects, symbol \in DefinitionSymbols :
        CallFindDefinitionBySymbol(project_id, symbol)

SpecSymbol == InitSymbol /\ [][NextSymbol]_vars

(***************************************************************************)
(* One builder storing what parse_file returns: the fragments the Java and *)
(* Go extractors yield for the sources, stored at either path of one       *)
(* project, with build_cross_references called at any point                *)
(***************************************************************************)
\* parse_file on a file holding source s
ParsedFragment(s) ==
    parse_file(languages_new, [p \in {ExtractPath} |-> File(TRUE, s)],
               ExtractPath, s.language).graph_data

\* the fragments of the sources, and FragA and FragB, whose reference nodes
\* carry the bare names of definitions, so that the resolution pass links them
InitBuild ==
    /\ projects = {} /\ files = {} /\ nodes = {} /\ edges = {}
    /\ now = 0
    /\ ret = NoCall
    /\ wk = [fragments |-> {ParsedFragment(s) : s \in Sources \ {NoTreeSource}}
                             \cup {FragA, FragB}]

NextBuild ==
    \/ CallCreateOrGetProject("n1", "/r1")
    \/ \E file_path \in FilePaths, graph_data \in wk.fragments :
          CallStoreFileGraph(1, file_path, graph_data)
    \/ CallBuildCrossReferences(1)

SpecBuild == InitBuild /\ [][NextBuild]_vars

(***************************************************************************)
(* One builder replacing files that other files refer to.  wk.unlinked     *)
(* records the reference nodes that lost their references edge because the  *)
(* file of its target was replaced, for as long as they are stored.        *)
(***************************************************************************)
\* a later content of the file of FragB: helper is a field of a struct
FragF ==
    FileGraphData(
        <<NodeData("struct", "T", "p.T", 1, 1, 9, 1),
          NodeData("field", "helper", "p.T.helper", 2, 1, 2, 9)>>,
        <<EdgeData(0, 1, "contains")>>,
        "h9")

ReplaceFragments == {FragA, FragA2, FragB, FragC, FragF}

\* the ids of the nodes store_file_graph deletes: those of the file stored
\* at the path with another fingerprint
ReplacedIds(db, project_id, file_path, graph_data) ==
    {n.id : n \in {m \in db.nodes :
                      \E f \in get_file_by_path(db, project_id, file_path) :
                          /\ ~ Unchanged(f, graph_data)
                          /\ m.file_id = f.id}}

\* the nodes of other files with a references edge to one of the ids
LinkedInto(db, ids) ==
    {e.source_id : e \in {x \in db.edges : /\ x.edge_type = "references"
                                            /\ x.target_id \in ids
                                            /\ x.source_id \notin ids}}

InitReplace ==
    /\ projects = {} /\ files = {} /\ nodes = {} /\ edges = {}
    /\ now = 0
    /\ ret = NoCall
    /\ wk = [unlinked |-> {}]

StoreFileGraphNoting(project_id, file_path, graph_data) ==
    LET r == store_file_graph(DB, project_id, file_path, LanguageOf(file_path),
                              graph_data, now + 1)
        wrote == r.db.files # files
    IN /\ wrote => now < MaxTime
       /\ SetDB(r.db)
       /\ now' = IF wrote THEN now + 1 ELSE now
       /\ ret' = [op |-> "store_file_graph", project_id |-> project_id,
                  file_path |-> file_path, graph_data |-> graph_data,
                  ok |-> r.ok, id |-> r.id]
       /\ wk' = [unlinked |-> LET old == ReplacedIds(DB, project_id, file_path, graph_data)
                               IN (wk.unlinked \ old) \cup LinkedInto(DB, old)]

NextReplace ==
    \/ CallCreateOrGetProject("n1", "/r1")
    \/ \E file_path \in FilePaths, graph_data \in ReplaceFragments :
          StoreFileGraphNoting(1, file_path, graph_data)
    \/ CallBuildCrossReferences(1)

SpecReplace == InitReplace /\ [][NextReplace]_vars

(***************************************************************************)
(* parse_project: core/mod.rs, with collect_files of core/parser.rs.  One  *)
(* run on an empty database, of a directory whose files do not change      *)
(* during the run.  At most one persistence failure happens in a run: the  *)
(* database cannot be opened, the project cannot be written, the walk of   *)
(* the directory fails, the first store_file_graph or                      *)
(* build_cross_references cannot write.                                    *)
(***************************************************************************)
RECURSIVE LastIndexOf(_, _, _)
\* the last position up to i of the character ch in s, 0 when there is none
LastIndexOf(s, ch, i) ==
    IF i = 0 THEN 0
    ELSE IF SubSeq(s, i, i) = ch THEN i
    ELSE LastIndexOf(s, ch, i - 1)

\* DirEntry::file_name: what follows the last separator of the path of the
\* entry, the whole path when it has no separator
file_name(path) == SubSeq(path, LastIndexOf(path, "/", Len(path)) + 1, Len(path))

\* Path::extension: what follows the last dot of the file name, none when
\* the name has no dot or only starts with one
extension(path) ==
    LET name == file_name(path)
        dot == LastIndexOf(name, ".", Len(name))
    IN IF dot <= 1 THEN {} ELSE {SubSeq(name, dot + 1, Len(name))}

\* is_hidden(entry): the file name of the entry starts with a dot
is_hidden(path) == SubSeq(file_name(path), 1, 1) = "."

\* the entries WalkDir::new(root) visits on the way to the file at path: root
\* itself (the entry of depth 0), each directory between root and the file,
\* and the file; none when the file is not below root
WalkEntries(root, path) ==
    IF Len(path) <= Len(root) + 1 \/ SubSeq(path, 1, Len(root) + 1) # root \o "/"
    THEN {}
    ELSE {root, path}
         \cup {SubSeq(path, 1, i - 1) :
                  i \in {j \in (Len(root) + 2)..Len(path) : SubSeq(path, j, j) = "/"}}

\* the files WalkDir::new(root).into_iter().filter_entry(|e| !is_hidden(e))
\* yields: filter_entry applies the predicate to every entry, the root
\* included, and does not descend into a directory it leaves out
WalkedFiles(disk, root) ==
    {p \in DOMAIN disk :
        /\ WalkEntries(root, p) # {}
        /\ \A e \in WalkEntries(root, p) : ~ is_hidden(e)}

\* the (path, language id) pairs collect_files pushes
CollectedFiles(registry, disk, root, filter_languages) ==
    {<<path, The(languages_get_by_extension(registry, The(extension(path)))).language_id>> :
        path \in {p \in WalkedFiles(disk, root) :
                     /\ extension(p) # {}
                     /\ LET lang == languages_get_by_extension(registry, The(extension(p)))
                        IN /\ lang # {}
                           /\ \A filters \in filter_languages :
                                 The(lang).language_id \in filters}}

\* the sequences of the elements of S without repetition
Orders(S) ==
    {q \in [1..Cardinality(S) -> S] : \A i, j \in DOMAIN q : q[i] = q[j] => i = j}

\* CodeParser::collect_files: the Vec it returns, in the order of the walk,
\* which is the order the directories list their entries in
collect_files(registry, disk, root, filter_languages) ==
    Orders(CollectedFiles(registry, disk, root, filter_languages))

\* one turn of the loop of parse_project: parse_file, and store_file_graph
\* when it returned Ok
parse_project_file(db, disk, project_id, file_path, language, store_fails, t) ==
    Strictly(parse_file(languages_new, disk, file_path, language), LAMBDA parsed :
    IF ~ parsed.ok THEN [db |-> db, event |-> "parse_failed"]
    ELSE IF store_fails THEN [db |-> db, event |-> "store_failed"]
    ELSE Strictly(store_file_graph(db, project_id, file_path, language,
                                   parsed.graph_data, t),
                  LAMBDA stored :
                  [db |-> stored.db,
                   event |-> IF stored.ok THEN "stored" ELSE "store_failed"]))

ProjectName == "n1"
ProjectPath == "/r1"

\* the directories parsed: a single file defining main that calls helper,
\* in Go as a function, in Go as a method, in Java; and a directory with an
\* unreadable file, a file the parser yields no tree for, two sources, a
\* file below a hidden directory and a file that is of no language
GoMainDisk == [p \in {"/r1/main.go"} |-> File(TRUE, GoMainSource)]
GoLibDisk == [p \in {"/r1/lib.go"} |-> File(TRUE, GoLibSource)]
JavaMainDisk == [p \in {"/r1/Main.java"} |-> File(TRUE, JavaMainSource)]
MixedDisk ==
    [p \in {"/r1/bad.go", "/r1/none.go", "/r1/lib.go", "/r1/Main.java",
            "/r1/.git/hook.go", "/r1/README.md"} |->
        CASE p = "/r1/bad.go" -> File(FALSE, GoBareSource)
          [] p = "/r1/none.go" -> File(TRUE, NoTreeSource)
          [] p = "/r1/lib.go" -> File(TRUE, GoLibSource)
          [] p = "/r1/Main.java" -> File(TRUE, JavaMainSource)
          [] p = "/r1/.git/hook.go" -> File(TRUE, GoBareSource)
          [] OTHER -> File(TRUE, NoTreeSource)]

MainDisks == {GoMainDisk, GoLibDisk, JavaMainDisk}
ParseDisks == MainDisks \cup {MixedDisk}

\* the persistence failure of the run
Faults == {"none", "open", "project", "walk", "store", "xref"}

\* the languages argument of parse_project
LanguageFilters == {{}, {{"go"}}}

InitParse ==
    /\ projects = {} /\ files = {} /\ nodes = {} /\ edges = {}
    /\ now = 0
    /\ ret = NoCall
    /\ \E disk \in ParseDisks, fault \in Faults, languages \in LanguageFilters :
          wk = [pc |-> "open", disk |-> disk, fault |-> fault, languages |-> languages,
                project_id |-> 0, files |-> <<>>, i |-> 0, log |-> <<>>,
                xrefs |-> 0, xref |-> FALSE, result |-> NoCall]

\* the return of parse_project
Return(ok, error) ==
    [wk EXCEPT !.pc = "done",
               !.result = [op |-> "parse_project", ok |-> ok, error |-> error]]

\* Database::open(db_path)?; db.init_schema()?
OpenDatabase ==
    /\ wk.pc = "open"
    /\ wk' = IF wk.fault = "open" THEN Return(FALSE, "open")
             ELSE [wk EXCEPT !.pc = "project"]
    /\ UNCHANGED <<projects, files, nodes, edges, now, ret>>

\* builder.create_or_get_project(project_name, project_path)?
CreateProject ==
    /\ wk.pc = "project"
    /\ IF wk.fault = "project"
       THEN /\ wk' = Return(FALSE, "create_or_get_project")
            /\ UNCHANGED <<projects, files, nodes, edges>>
       ELSE LET r == create_or_get_project(DB, ProjectName, ProjectPath)
            IN /\ SetDB(r.db)
               /\ wk' = IF r.ok THEN [wk EXCEPT !.pc = "collect", !.project_id = r.id]
                        ELSE Return(FALSE, "create_or_get_project")
    /\ UNCHANGED <<now, ret>>

\* parser.collect_files(project_path, languages)?
CollectFiles ==
    /\ wk.pc = "collect"
    /\ IF wk.fault = "walk"
       THEN wk' = Return(FALSE, "collect_files")
       ELSE \E fs \in collect_files(languages_new, wk.disk, ProjectPath, wk.languages) :
               wk' = [wk EXCEPT !.pc = "files", !.files = fs, !.i = 1]
    /\ UNCHANGED <<projects, files, nodes, edges, now, ret>>

\* one turn of for (file_path, language) in files
ParseNextFile ==
    /\ wk.pc = "files"
    /\ wk.i <= Len(wk.files)
    /\ LET file_path == wk.files[wk.i][1]
           r == parse_project_file(DB, wk.disk, wk.project_id, file_path,
                                   wk.files[wk.i][2], wk.fault = "store", now + 1)
       IN /\ SetDB(r.db)
          /\ now' = IF r.db.files # files THEN now + 1 ELSE now
          /\ wk' = IF r.event = "store_failed"
                   THEN [Return(FALSE, "store_file_graph")
                           EXCEPT !.log = Append(@, <<r.event, file_path>>)]
                   ELSE [wk EXCEPT !.i = @ + 1,
                                   !.log = Append(@, <<r.event, file_path>>)]
    /\ UNCHANGED ret

\* the call of build_cross_references: wk.xrefs counts the calls made, wk.xref
\* tells that one returned Ok
CallXref ==
    /\ IF wk.fault = "xref"
       THEN /\ wk' = [Return(FALSE, "build_cross_references") EXCEPT !.xrefs = @ + 1]
            /\ UNCHANGED <<projects, files, nodes, edges>>
       ELSE \E r \in build_cross_references(DB, wk.project_id) :
               /\ SetDB(r.db)
               /\ wk' = IF r.ok
                        THEN [Return(TRUE, NoneStr) EXCEPT !.xref = TRUE, !.xrefs = @ + 1]
                        ELSE [Return(FALSE, "build_cross_references") EXCEPT !.xrefs = @ + 1]
    /\ UNCHANGED <<now, ret>>

\* build_cross_references called when the last file of the batch is reached,
\* before it is parsed
BuildCrossReferences_before_last ==
    /\ wk.pc = "files"
    /\ wk.i >= Len(wk.files)
    /\ CallXref

\* builder.build_cross_references(project_id)?; Ok(())
BuildCrossReferences ==
    /\ wk.pc = "files"
    /\ wk.i > Len(wk.files)
    /\ CallXref

\* get_callgraph(project, "main", 1, "callees") after parse_project returned Ok
QueryMain ==
    /\ wk.pc = "done"
    /\ wk.result.ok
    /\ CallGetCallgraph(wk.project_id, "main", 1, "callees")

NextParse ==
    \/ OpenDatabase
    \/ CreateProject
    \/ CollectFiles
    \/ ParseNextFile
    \/ BuildCrossReferences
    \/ QueryMain

SpecParse == InitParse /\ [][NextParse]_vars

(***************************************************************************)
(* collect_files on directories of several names                           *)
(***************************************************************************)
\* the files of the directories walked: sources of the two languages, files
\* of no language, files and directories whose names start with a dot, below
\* roots that have a plain name, a name starting with a dot, a parent whose
\* name starts with a dot, and the name "."
CollectPaths ==
    {"/r1/Main.java", "/r1/lib.go", "/r1/README.md", "/r1/noext", "/r1/.env.go",
     "/r1/.git/hook.go", "/r1/sub/b.go", "/r1/sub/.x/a.go",
     "/w/.tmp1/Main.java", "/w/.tmp1/src/lib.go",
     "./main.go",
     "/.cfg/proj/lib.go"}

\* the files every directory of the model has, and those it may have
CollectFixed == {"/r1/sub/.x/a.go", "/w/.tmp1/Main.java", "./main.go", "/.cfg/proj/lib.go"}

CollectDisks ==
    {[p \in CollectFixed \cup S |-> File(TRUE, NoTreeSource)] :
        S \in SUBSET (CollectPaths \ CollectFixed)}

\* the root arguments: the last is a directory the walk of /r1 leaves out
CollectRoots == {"/r1", "/r1/sub", "/w/.tmp1", ".", "/.cfg/proj", "/r1/.git"}

\* the filter_languages arguments: None, or Some of a list
CollectFilters == {{}, {{"go"}}, {{"java"}}, {{"go", "java"}}, {{}}}

InitCollect ==
    /\ projects = {} /\ files = {} /\ nodes = {} /\ edges = {}
    /\ now = 0
    /\ ret = NoCall
    /\ \E disk \in CollectDisks : wk = [disk |-> disk]

CallCollectFiles(root, filter_languages) ==
    /\ \E fs \in collect_files(languages_new, wk.disk, root, filter_languages) :
          ret' = [op |-> "collect_files", root |-> root,
                  filter_languages |-> filter_languages, ok |-> TRUE, files |-> fs]
    /\ UNCHANGED <<projects, files, nodes, edges, now, wk>>

NextCollect ==
    \E root \in CollectRoots, filter_languages \in CollectFilters :
        CallCollectFiles(root, filter_languages)

SpecCollect == InitCollect /\ [][NextCollect]_vars

(***************************************************************************)
(* Properties of the builder                                               *)
(***************************************************************************)
\* the positions of the fragment edges whose two indices are positions of the
\* fragment's node list
InRangeEdges(g) ==
    {j \in 1..Len(g.edges) :
        g.edges[j].source_idx < Len(g.nodes) /\ g.edges[j].target_idx < Len(g.nodes)}

NodeIdsOfFile(ns, file_id) == {n.id : n \in {m \in ns : m.file_id = file_id}}

IsStoreCall(r) == r.op = "store_file_graph"

IsXrefCall(r) == r.op = "build_cross_references"

RefEdges(es) == {e \in es : e.edge_type = "references"}

\* C1: when a File exists at (project, path) and its stored fingerprint equals
\* the fragment's, store_file_graph returns that File's id and changes no File,
\* Node or Edge row (nothing of the fragment is inserted, parsed_at and the
\* references edges stay); so repeating the call gives the same id and store.
C1_UnchangedIsNoOp ==
    [][\A f \in files :
          ( /\ IsStoreCall(ret')
            /\ ret'.project_id = f.project_id
            /\ ret'.file_path = f.path
            /\ ret'.graph_data.content_hash = f.content_hash )
          => /\ ret'.ok
             /\ ret'.id = f.id
             /\ files' = files
             /\ nodes' = nodes
             /\ edges' = edges]_vars

\* a call skipped as unchanged: it passed other content (FragA2) under the
\* fingerprint of the stored FragA, the File was parsed before the last write,
\* and one of its reference nodes has been resolved
C1_Witness ==
    /\ IsStoreCall(ret)
    /\ ret.ok
    /\ ret.graph_data = FragA2
    /\ \E f \in files :
          /\ f.id = ret.id
          /\ f.project_id = ret.project_id
          /\ f.path = ret.file_path
          /\ f.parsed_at < now
          /\ \E n \in nodes : n.file_id = f.id /\ n.name = "A"
          /\ \E e \in RefEdges(edges) : e.source_id \in NodeIdsOfFile(nodes, f.id)

\* C2: after store_file_graph succeeds for an existing (project, path) whose
\* stored fingerprint differs from the fragment's, exactly one File row is at
\* (project, path) and it carries the new fingerprint; every Node row is a row
\* of another File that was there before or one of the fragment's nodes (as
\* many as the fragment has); every Edge row is an earlier row with no endpoint
\* in the prior version or one of the fragment's edges between the new nodes;
\* and both endpoints of every Edge are stored.
C2_ReplaceLeavesNoOrphans ==
    [][\A f \in files :
          ( /\ IsStoreCall(ret')
            /\ ret'.ok
            /\ ret'.project_id = f.project_id
            /\ ret'.file_path = f.path
            /\ ret'.graph_data.content_hash # f.content_hash )
          => LET g == ret'.graph_data
                 oldIds == NodeIdsOfFile(nodes, f.id)
                 newIds == NodeIdsOfFile(nodes', ret'.id)
                 here == {x \in files' : x.project_id = f.project_id /\ x.path = f.path}
                 kept == {e \in edges : e.source_id \notin oldIds /\ e.target_id \notin oldIds}
             IN /\ Cardinality(here) = 1
                /\ \A x \in here : x.content_hash = g.content_hash /\ x.id = ret'.id
                /\ \A n \in nodes' : (n \in nodes /\ n.file_id # f.id) \/ n.file_id = ret'.id
                /\ Cardinality(newIds) = Len(g.nodes)
                /\ kept \subseteq edges'
                /\ \A e \in edges' \ kept : e.source_id \in newIds /\ e.target_id \in newIds
                /\ Cardinality(edges' \ kept) = Cardinality(InRangeEdges(g))
                /\ \A e \in edges' : \E a, b \in nodes' : a.id = e.source_id /\ b.id = e.target_id]_vars

\* FragA was stored first and is still there, the file at /b.go was written a
\* second time, by this call and with FragC: the replaced version was the
\* second write of the run
C2_Witness ==
    /\ IsStoreCall(ret)
    /\ ret.ok
    /\ ret.graph_data = FragC
    /\ ret.file_path = "/b.go"
    /\ now = 3
    /\ Cardinality(files) = 2
    /\ \E f \in files : f.path = "/a.java" /\ f.parsed_at = 1 /\ f.content_hash = "h1"
    /\ \E f \in files : f.id = ret.id /\ f.path = "/b.go" /\ f.parsed_at = 3

\* C3: store_file_graph on an existing project returns Ok whatever the indices
\* of the fragment's edges are; when it writes the fragment (no File with the
\* fragment's fingerprint is at (project, path)), the File has the fragment's
\* nodes, position i as the i-th id, every edge with both indices in range is
\* stored between the ids of its positions, and nothing is stored for an edge
\* with an index out of range.
C3_OutOfRangeEdgeDropped ==
    [][( /\ IsStoreCall(ret')
         /\ \E p \in projects : p.id = ret'.project_id )
       => /\ ret'.ok
          /\ (~ \E f \in files : /\ f.project_id = ret'.project_id
                                 /\ f.path = ret'.file_path
                                 /\ f.content_hash = ret'.graph_data.content_hash)
             => LET g == ret'.graph_data
                    ids == SortedSeq(NodeIdsOfFile(nodes', ret'.id))
                IN /\ Len(ids) = Len(g.nodes)
                   /\ \A i \in 1..Len(g.nodes) :
                         \E n \in nodes' : /\ n.id = ids[i]
                                           /\ n.name = g.nodes[i].name
                                           /\ n.node_type = g.nodes[i].node_type
                                           /\ n.start_line = g.nodes[i].start_line
                   /\ \A j \in InRangeEdges(g) :
                         \E e \in edges' : /\ e.source_id = ids[g.edges[j].source_idx + 1]
                                           /\ e.target_id = ids[g.edges[j].target_idx + 1]
                                           /\ e.edge_type = g.edges[j].edge_type
                   /\ Cardinality({e \in edges' : e.source_id \in NodeIdsOfFile(nodes', ret'.id)})
                         = Cardinality(InRangeEdges(g))]_vars

\* FragA, whose second edge has target index 99, was stored: its three nodes
\* are there and so is its third edge, from the class to the reference x
C3_Witness ==
    /\ IsStoreCall(ret)
    /\ ret.ok
    /\ ret.graph_data = FragA
    /\ Cardinality(NodeIdsOfFile(nodes, ret.id)) = 3
    /\ \E e \in edges, a, b \in nodes :
          /\ a.file_id = ret.id /\ a.name = "A" /\ e.source_id = a.id
          /\ b.file_id = ret.id /\ b.name = "x" /\ e.target_id = b.id
          /\ e.edge_type = "contains"

\* C5: a run of build_cross_references(project) that directly follows a run
\* for the same project changes no Edge row.
C5_SecondRunInsertsNothing ==
    [][( /\ IsXrefCall(ret) /\ ret.ok
         /\ IsXrefCall(ret') /\ ret'.project_id = ret.project_id )
       => edges' = edges]_vars

\* a run has resolved one reference of the project and left another unresolved
C5_Witness ==
    /\ IsXrefCall(ret)
    /\ ret.ok
    /\ \E e \in RefEdges(edges) :
          e.source_id \in {n.id : n \in NodesOfProject(DB, ret.project_id)}
    /\ get_unresolved_references(DB, ret.project_id) # {}

\* C6: after build_cross_references(project) returns Ok, every reference node
\* of the project that has a same-named node of a definition kind (class,
\* method, function, interface, struct, field, variable) in the project has a
\* references edge to such a node.
C6_EveryMatchResolved ==
    (IsXrefCall(ret) /\ ret.ok)
    => \A r \in NodesOfProject(DB, ret.project_id) :
          ( /\ r.node_type = "reference"
            /\ \E d \in NodesOfProject(DB, ret.project_id) :
                  d.name = r.name /\ d.node_type \in DefinitionTypes )
          => \E e \in RefEdges(edges), d \in NodesOfProject(DB, ret.project_id) :
                /\ e.source_id = r.id
                /\ e.target_id = d.id
                /\ d.name = r.name
                /\ d.node_type \in DefinitionTypes

\* C7: every references edge goes from a node to a node with the same name
\* and of a definition kind; a reference node whose project holds no
\* same-named node of a definition kind has no references edge; and
\* build_cross_references returns Ok.
C7_OnlySameNamedDefinitions ==
    /\ \A e \in RefEdges(edges) :
          \E r, d \in nodes :
             /\ r.id = e.source_id
             /\ d.id = e.target_id
             /\ d.name = r.name
             /\ d.node_type \in DefinitionTypes
             /\ d.node_type \notin {"call", "reference"}
    /\ \A p \in projects :
          \A r \in NodesOfProject(DB, p.id) :
             ( /\ r.node_type = "reference"
               /\ ~ \E d \in NodesOfProject(DB, p.id) :
                       d.name = r.name /\ d.node_type \in DefinitionTypes )
             => ~ \E e \in RefEdges(edges) : e.source_id = r.id
    /\ IsXrefCall(ret) => ret.ok

\* after a run in a project where the only nodes named helper are a call and
\* a reference, the reference is unresolved, while a reference of another
\* project is resolved
C7_Witness ==
    /\ IsXrefCall(ret)
    /\ ret.ok
    /\ RefEdges(edges) # {}
    /\ \E r, c \in NodesOfProject(DB, ret.project_id) :
          /\ r.node_type = "reference" /\ r.name = "helper"
          /\ c.node_type = "call" /\ c.name = "helper"
          /\ ~ \E d \in NodesOfProject(DB, ret.project_id) :
                  d.name = "helper" /\ d.node_type \in DefinitionTypes
          /\ ~ \E e \in RefEdges(edges) : e.source_id = r.id

\* the project of a stored node
ProjectOfNode(n) ==
    (CHOOSE f \in files : f.id = n.file_id).project_id

\* C8: the two nodes of every references edge are nodes of files of the same
\* project.
C8_ReferencesWithinProject ==
    \A e \in RefEdges(edges) :
       \E r, d \in nodes :
          /\ r.id = e.source_id
          /\ d.id = e.target_id
          /\ ProjectOfNode(r) = ProjectOfNode(d)

\* two projects define B, a reference to B of the first one is resolved and
\* the last run was in the first project
C8_Witness ==
    /\ IsXrefCall(ret)
    /\ ret.project_id = 1
    /\ \E d1 \in NodesOfProject(DB, 1), d2 \in NodesOfProject(DB, 2) :
          d1.name = "B" /\ d1.node_type = "class" /\ d2.name = "B" /\ d2.node_type = "class"
    /\ \E e \in RefEdges(edges), r \in NodesOfProject(DB, 1) :
          r.name = "B" /\ r.node_type = "reference" /\ e.source_id = r.id

\* the File stored at ConcPath holds exactly the nodes and the in-range edges
\* of fragment g
HoldsFragment(f, g) ==
    LET ids == SortedSeq(NodeIdsOfFile(nodes, f.id))
        out == {e \in edges : e.source_id \in NodeIdsOfFile(nodes, f.id)
                              \/ e.target_id \in NodeIdsOfFile(nodes, f.id)}
    IN /\ f.content_hash = g.content_hash
       /\ Len(ids) = Len(g.nodes)
       /\ \A i \in 1..Len(g.nodes) :
             \E n \in nodes : /\ n.id = ids[i]
                              /\ n.name = g.nodes[i].name
                              /\ n.node_type = g.nodes[i].node_type
       /\ Cardinality(out) = Cardinality(InRangeEdges(g))
       /\ \A j \in InRangeEdges(g) :
             \E e \in out : /\ e.source_id = ids[g.edges[j].source_idx + 1]
                            /\ e.target_id = ids[g.edges[j].target_idx + 1]
                            /\ e.edge_type = g.edges[j].edge_type

\* both calls have returned, and both had read the File row stored before the race
BothReadOldAndReturned ==
    \A w \in Workers :
       /\ wk[w].pc \in {"done", "failed"}
       /\ \E f \in wk[w].existing : f.content_hash = FragB.content_hash

\* C4: when two workers, each on its own connection, call store_file_graph
\* for the same (project, path) with changed content and both read the old
\* fingerprint, then after both calls returned neither has failed, exactly one
\* File row is at (project, path) and its Nodes and Edges are exactly those of
\* one of the two fragments.
C4_NoDoubleReplace ==
    BothReadOldAndReturned
    => /\ \A w \in Workers : wk[w].pc = "done"
       /\ Cardinality(get_file_by_path(DB, ConcProject, ConcPath)) = 1
       /\ \A f \in get_file_by_path(DB, ConcProject, ConcPath) :
             \E w \in Workers : HoldsFragment(f, wk[w].graph_data)

(***************************************************************************)
(* Properties of the query engine                                          *)
(***************************************************************************)
\* node n contains the point (line, column): its lines span the line, the
\* column is not before its start on its first line and not after its end on
\* its last line
Contains(n, line, column) ==
    /\ n.start_line <= line /\ line <= n.end_line
    /\ (line = n.start_line) => (column >= n.start_column)
    /\ (line = n.end_line) => (column <= n.end_column)

\* span a is smaller than span b: fewer lines, or as many lines and a smaller
\* column difference
SmallerSpan(a, b) ==
    LET al == a.end_line - a.start_line
        bl == b.end_line - b.start_line
        ac == a.end_column - a.start_column
        bc == b.end_column - b.start_column
    IN al < bl \/ (al = bl /\ ac < bc)

SeqRange(q) == {q[i] : i \in DOMAIN q}

\* C9: the position lookup returns no node iff no node of the file in the
\* project contains (line, column); otherwise it returns a containing node
\* than which no containing node has a smaller span.
C9_InnermostContainingNode ==
    (ret.op = "find_node_at_position")
    => LET containing ==
              {n \in nodes : /\ \E f \in files : /\ f.id = n.file_id
                                                 /\ f.project_id = ret.project_id
                                                 /\ f.path = ret.file_path
                             /\ Contains(n, ret.line, ret.column)}
       IN /\ (ret.found = {}) <=> (containing = {})
          /\ \A r \in ret.found :
                /\ r \in containing
                /\ ~ \E m \in containing : SmallerSpan(m, r)

\* with A on lines 1-20 and B on lines 5-8 of the file, the lookup at (6, 1)
\* answered B
C9_Witness ==
    /\ ret.op = "find_node_at_position"
    /\ ret.line = 6 /\ ret.column = 1
    /\ \E a \in nodes, f \in files :
          /\ f.id = a.file_id /\ f.project_id = ret.project_id /\ f.path = ret.file_path
          /\ a.name = "A" /\ a.start_line = 1 /\ a.end_line = 20
    /\ \E b \in ret.found : b.name = "B" /\ b.start_line = 5 /\ b.end_line = 8

\* among containing nodes of one line, the lookup answered the one with the
\* smaller column difference, not the call node around it
C9_WitnessColumns ==
    /\ ret.op = "find_node_at_position"
    /\ ret.line = 2 /\ ret.column = 6
    /\ \E r \in ret.found : r.name = "r"
    /\ \E c \in nodes : c.name = "c" /\ Contains(c, 2, 6)

\* C10: for the resolved center node n, get_callgraph returns as callers the
\* nodes with a calls edge into n when depth >= 1 and direction is callers or
\* both, and nothing otherwise; as callees the nodes n has a calls edge to
\* when depth >= 1 and direction is callees or both, and nothing otherwise.
C10_OneHopCallgraph ==
    (ret.op = "get_callgraph" /\ ret.ok)
    => LET n == ret.n
           into == {m \in nodes : \E e \in edges :
                       e.edge_type = "calls" /\ e.source_id = m.id /\ e.target_id = n.id}
           outof == {m \in nodes : \E e \in edges :
                       e.edge_type = "calls" /\ e.source_id = n.id /\ e.target_id = m.id}
       IN /\ SeqRange(ret.result.callers) =
                IF ret.depth >= 1 /\ ret.direction \in {"callers", "both"}
                THEN {SymbolInfo(DB, m) : m \in into} ELSE {}
          /\ SeqRange(ret.result.callees) =
                IF ret.depth >= 1 /\ ret.direction \in {"callees", "both"}
                THEN {SymbolInfo(DB, m) : m \in outof} ELSE {}
          /\ (ret.depth = 0) => (ret.result.callers = <<>> /\ ret.result.callees = <<>>)

\* asked for the callees of main at depth 2 in the chain main -> helper ->
\* leaf, the answer holds helper and not leaf
C10_Witness ==
    /\ ret.op = "get_callgraph"
    /\ ret.ok
    /\ ret.symbol = "main"
    /\ ret.depth = 2
    /\ ret.direction = "both"
    /\ \E e1, e2 \in edges, h, l \in nodes :
          /\ e1.edge_type = "calls" /\ e1.source_id = ret.n.id /\ e1.target_id = h.id
          /\ e2.edge_type = "calls" /\ e2.source_id = h.id /\ e2.target_id = l.id
          /\ l.name = "leaf"
    /\ \E x \in SeqRange(ret.result.callees) : x.name = "helper"
    /\ ~ \E x \in SeqRange(ret.result.callees) : x.name = "leaf"
    /\ ret.result.callers = <<>>

\* C11: find_definition, find_references and search_symbols always succeed,
\* with found = false and no definition, or an empty list and count 0, when
\* no node of the file in the project contains the position or no node of the
\* project matches the query; get_callgraph fails exactly when no node of the
\* project has the symbol as its name or qualified name.
C11_NegativeResultsSucceed ==
    LET at == {n \in nodes : /\ \E f \in files : /\ f.id = n.file_id
                                                /\ f.project_id = ret.project_id
                                                /\ f.path = ret.file_path
                             /\ Contains(n, ret.line, ret.column)}
        inProject == {n \in nodes : \E f \in files :
                         f.id = n.file_id /\ f.project_id = ret.project_id}
    IN /\ (ret.op = "find_definition")
          => /\ ret.ok
             /\ (at = {}) => (ret.result.found = FALSE /\ ret.result.definition = {})
       /\ (ret.op = "find_references")
          => /\ ret.ok
             /\ (at = {}) => (ret.result.count = 0 /\ ret.result.references = <<>>)
       /\ (ret.op = "search_symbols")
          => /\ ret.ok
             /\ (\A n \in inProject : ~ Like(n.name, ret.query)
                                      /\ ~ Like(n.qualified_name, ret.query))
                => (ret.result.count = 0 /\ ret.result.symbols = <<>>)
       /\ (ret.op = "get_callgraph")
          => (ret.ok <=> \E n \in inProject :
                            \/ n.name = ret.symbol
                            \/ n.qualified_name = ret.symbol)

\* a search whose query no node matched succeeded with nothing, in a project
\* that holds nodes
C11_Witness ==
    /\ ret.op = "search_symbols"
    /\ ret.query = "zzz"
    /\ ret.ok
    /\ ret.result.count = 0
    /\ \E n \in nodes, f \in files : f.id = n.file_id /\ f.project_id = ret.project_id

\* a call graph asked for a symbol no node of a project with nodes is named
\* failed
C11_WitnessCallgraph ==
    /\ ret.op = "get_callgraph"
    /\ ~ ret.ok
    /\ \E n \in nodes, f \in files : f.id = n.file_id /\ f.project_id = ret.project_id

\* query occurs in text as a contiguous run of characters, each compared as
\* it is
Substring(query, text) ==
    \/ query = ""
    \/ \E k \in 1..(Len(text) - Len(query) + 1) : SubSeq(text, k, k + Len(query) - 1) = query

\* the nodes of the project a search was asked on whose name or qualified
\* name holds the query as a case-sensitive substring, of the kind asked for
\* when a kind was given
SubstringMatches(r) ==
    {n \in nodes :
        /\ \E f \in files : f.id = n.file_id /\ f.project_id = r.project_id
        /\ r.symbol_type # {} => n.node_type \in r.symbol_type
        /\ \/ Substring(r.query, n.name)
           \/ n.qualified_name # NoneStr /\ Substring(r.query, n.qualified_name)}

\* C12: a search without a type filter and with a limit of at least the
\* number of nodes returns exactly the nodes of the project whose name or
\* qualified name holds the query as a case-sensitive contiguous substring,
\* every character of the query taken literally.
C12_CaseSensitiveSubstring ==
    ( /\ ret.op = "search_symbols"
      /\ ret.symbol_type = {}
      /\ ret.limit >= Cardinality(nodes) )
    => SeqRange(ret.rows) = SubstringMatches(ret)

\* C13: a search returns only nodes of the given project that match the
\* query, all of the kind of the type filter when one is given; it returns
\* min(limit, number of matching nodes) of them, and count is the length of
\* the symbols list.
C13_FilterLimitCount ==
    (ret.op = "search_symbols")
    => /\ SeqRange(ret.rows) \subseteq SubstringMatches(ret)
       /\ \A i, j \in DOMAIN ret.rows : ret.rows[i] = ret.rows[j] => i = j
       /\ Len(ret.rows) = Min({ret.limit, Cardinality(SubstringMatches(ret))})
       /\ ret.result.count = Len(ret.result.symbols)
       /\ ret.result.symbols = [i \in DOMAIN ret.rows |-> SymbolInfo(DB, ret.rows[i])]

\* the same with the matching the store computes: the project, the type
\* filter, the limit and the count of a search
SearchFilterLimitCount ==
    (ret.op = "search_symbols")
    => LET matching == {n \in nodes :
                           /\ \E f \in files : /\ f.id = n.file_id
                                               /\ f.project_id = ret.project_id
                           /\ ret.symbol_type # {} => n.node_type \in ret.symbol_type
                           /\ Like(n.name, ret.query) \/ Like(n.qualified_name, ret.query)}
       IN /\ SeqRange(ret.rows) \subseteq matching
          /\ \A i, j \in DOMAIN ret.rows : ret.rows[i] = ret.rows[j] => i = j
          /\ Len(ret.rows) = Min({ret.limit, Cardinality(matching)})
          /\ ret.result.count = Len(ret.result.symbols)

\* over UserService, UserRepository and OrderService the query "User" with
\* the class filter answered exactly the two User classes
SearchUserExample ==
    ( /\ ret.op = "search_symbols" /\ ret.query = "User"
      /\ ret.symbol_type = {"class"} /\ ret.limit = LargeLimit
      /\ \E n \in nodes, f \in files : /\ f.id = n.file_id
                                       /\ f.project_id = ret.project_id
                                       /\ n.name = "OrderService" )
    => {x.name : x \in SeqRange(ret.result.symbols)} = {"UserService", "UserRepository"}

(***************************************************************************)
(* Properties of the builder: projects                                     *)
(***************************************************************************)
\* C17: a create_or_get_project call for a root path a project has returns
\* that project's id and changes no project row, whatever name is passed; a
\* call for a root path no project has returns an id no project has and adds
\* one row with that name and root path; no two project rows share a root
\* path.
C17_OneProjectPerRootPath ==
    [][ /\ \A p, q \in projects : p.root_path = q.root_path => p = q
        /\ (ret'.op = "create_or_get_project")
           => /\ ret'.ok
              /\ \A p \in projects :
                    p.root_path = ret'.root_path
                    => ret'.id = p.id /\ projects' = projects
              /\ (\A p \in projects : p.root_path # ret'.root_path)
                 => /\ \A p \in projects : p.id # ret'.id
                    /\ projects' = projects \cup {[id |-> ret'.id, name |-> ret'.name,
                                                   root_path |-> ret'.root_path]}
              /\ \A p, q \in projects' : p.root_path = q.root_path => p = q ]_vars

\* a second call with the root path of a project and another name returned
\* the project's id, with two projects in the store
C17_Witness ==
    /\ ret.op = "create_or_get_project"
    /\ Cardinality(projects) = 2
    /\ \E p \in projects : /\ p.root_path = ret.root_path
                           /\ p.id = ret.id
                           /\ p.name # ret.name

(***************************************************************************)
(* Properties of the registries                                            *)
(***************************************************************************)
\* the languages registered so far
Registered == {wk.languages[i] : i \in DOMAIN wk.languages}

\* the answers of the two registries to the lookups of a language's
\* declared extension x
DeclaredLookups(x) ==
    {registry_get_by_extension(wk.registry, x),
     languages_get_by_extension(wk.languages, x)}

RegistryLookupsDotted ==
    /\ (ret.op = "get_by_extension")
       => /\ ret.registry = ret.registry_dot
          /\ ret.languages = ret.languages_dot
          /\ ret.is_supported <=> (ret.registry # {})
    /\ \A L \in Registered : \A k \in DOMAIN L.file_extensions :
          SubSeq(L.file_extensions[k], 1, 1) = "."
          => DeclaredLookups(L.file_extensions[k]) = {{L}}

(***************************************************************************)
(* Properties of the extractors                                            *)
(***************************************************************************)
\* the returned fragment of an extraction, as store_file_graph stores it in
\* a store that has nothing but the project
StoredExtraction(x) ==
    store_file_graph(create_or_get_project(EmptyDB, "n1", "/r1").db, 1, ExtractPath,
                     x.language_id,
                     FileGraphData(x.nodes, x.edges, x.content_hash), 1)

\* C18: every edge of a fragment the Java or the Go extractor returns has
\* source_idx < target_idx < number of nodes of the fragment, and
\* store_file_graph stores one edge row for each edge of the fragment.
C18_ExtractorEdgesInRange ==
    (ret.op \in {"parse_file", "extract_graph"} /\ ret.ok)
    => /\ \A i \in DOMAIN ret.edges :
             /\ ret.edges[i].source_idx < ret.edges[i].target_idx
             /\ ret.edges[i].target_idx < Len(ret.nodes)
       /\ StoredExtraction(ret).ok
       /\ Cardinality(StoredExtraction(ret).db.edges) = Len(ret.edges)

\* an extraction of the class with extends, implements, parameters and
\* invocations, or of the package with struct fields and nested calls
C18_Witness ==
    /\ ret.op \in {"parse_file", "extract_graph"}
    /\ ret.ok
    /\ Len(ret.edges) >= 5
    /\ \E i \in DOMAIN ret.edges : ret.edges[i].source_idx > 0

C19_WitnessHash ==
    \E x \in wk.probe :
       /\ ret.op = "parse_file" /\ x.op = "parse_file" /\ ret.ok
       /\ x.language_id = ret.language_id /\ x.text = ret.text
       /\ ret.content_hash = compute_hash(GoLibSource.text)

(***************************************************************************)
(* Properties of parse_project                                             *)
(***************************************************************************)
\* the files of the batch parse_file fails for, and those it returns Ok for
ParseFailing ==
    {k \in DOMAIN wk.files :
        ~ parse_file(languages_new, wk.disk, wk.files[k][1], wk.files[k][2]).ok}

ParseOk == DOMAIN wk.files \ ParseFailing

\* the File rows of the project for the path of file k of the batch
FileRowsOf(k) == get_file_by_path(DB, wk.project_id, wk.files[k][1])

Returned == wk.pc = "done" /\ ret = NoCall

\* C14: parse_project having returned Ok for a directory with one file, in
\* Go or Java, that defines a function or method main whose body calls
\* helper, get_callgraph(project, "main", 1, "callees") succeeds, its center
\* is the function or method main, callees has an entry named helper and
\* callers is empty.
C14_MainCallsHelper ==
    (ret.op = "get_callgraph" /\ wk.disk \in MainDisks /\ wk.languages = {})
    => /\ ret.ok
       /\ ret.result.center.name = "main"
       /\ ret.result.center.node_type \in {"function", "method"}
       /\ \E i \in DOMAIN ret.result.callees : ret.result.callees[i].name = "helper"
       /\ ret.result.callers = <<>>

\* the same, for the files in which main is a method
MainMethodCallsHelper ==
    (ret.op = "get_callgraph" /\ wk.disk \in {GoLibDisk, JavaMainDisk}
     /\ wk.languages = {})
    => /\ ret.ok
       /\ ret.result.center.name = "main"
       /\ ret.result.center.node_type = "method"
       /\ \E i \in DOMAIN ret.result.callees : ret.result.callees[i].name = "helper"
       /\ ret.result.callers = <<>>

\* C15: when parse_file fails for a file of the batch and the database was
\* opened, the project created and the directory walked, parse_project
\* returns Ok, build_cross_references has run, nothing is stored for the
\* files parse_file fails for and every other file of the batch is stored.
C15_ParseFailureSkipsFile ==
    (Returned /\ ParseFailing # {})
    => /\ wk.result.ok
       /\ wk.xref
       /\ \A k \in ParseFailing : FileRowsOf(k) = {}
       /\ \A k \in ParseOk : FileRowsOf(k) # {}

\* the same, in the runs without a failure of store_file_graph or of
\* build_cross_references; and a run returns an error after a failure only
ParseFailureSkipsFileUnlessStoreFails ==
    /\ (Returned /\ ParseFailing # {} /\ wk.fault \notin {"store", "xref"})
       => /\ wk.result.ok
          /\ wk.xref
          /\ \A k \in ParseFailing : FileRowsOf(k) = {}
          /\ \A k \in ParseOk : FileRowsOf(k) # {}
    /\ (Returned /\ ~ wk.result.ok) => wk.fault # "none"
    /\ (Returned /\ wk.fault = "none") => Len(wk.log) = Len(wk.files)

\* C16: when store_file_graph fails for a file of the batch, the files
\* after it are still processed and build_cross_references still runs.
C16_StoreFailureSkipsFile ==
    (Returned /\ \E k \in DOMAIN wk.log : wk.log[k][1] = "store_failed")
    => /\ Len(wk.log) = Len(wk.files)
       /\ wk.xref

\* the failure of store_file_graph returns from parse_project at once
StoreFailureAborts ==
    (Returned /\ \E k \in DOMAIN wk.log : wk.log[k][1] = "store_failed")
    => /\ ~ wk.result.ok
       /\ wk.log[Len(wk.log)][1] = "store_failed"
       /\ ~ wk.xref

(***************************************************************************)
(* Properties of store_file_graph writing a new File                       *)
(***************************************************************************)
\* the Node row of the store ns with the id i
NodeOfId(ns, i) == CHOOSE n \in ns : n.id = i

\* the Edge row of the store es with the id i
EdgeOfId(es, i) == CHOOSE e \in es : e.id = i

\* C21: when store_file_graph stores a fragment with n nodes at a (project,
\* path) that holds no File, the rows it adds are the new File's Nodes and
\* Edges only: n Nodes, the one with the i-th smallest id carrying every field
\* of the fragment's node at position i, and one Edge for each fragment edge
\* with both indices below n, in the fragment's order (duplicates included),
\* from the id of its source position to the id of its target position with
\* the edge's kind and attributes; no earlier row changes.
C21_NewFileNodesAndEdges ==
    [][( /\ IsStoreCall(ret')
         /\ ret'.ok
         /\ ~ \E f \in files : f.project_id = ret'.project_id /\ f.path = ret'.file_path )
       => LET g == ret'.graph_data
              ids == SortedSeq(NodeIdsOfFile(nodes', ret'.id))
              eids == SortedSeq({e.id : e \in edges' \ edges})
              kept == SortedSeq(InRangeEdges(g))
          IN /\ nodes \subseteq nodes'
             /\ edges \subseteq edges'
             /\ {n.id : n \in nodes' \ nodes} = NodeIdsOfFile(nodes', ret'.id)
             /\ Cardinality(nodes' \ nodes) = Len(g.nodes)
             /\ Len(ids) = Len(g.nodes)
             /\ \A i \in 1..Len(g.nodes) :
                   LET n == NodeOfId(nodes', ids[i])
                       d == g.nodes[i]
                   IN /\ n.file_id = ret'.id
                      /\ n.node_type = d.node_type
                      /\ n.name = d.name
                      /\ n.qualified_name = d.qualified_name
                      /\ n.start_line = d.start_line
                      /\ n.start_column = d.start_column
                      /\ n.end_line = d.end_line
                      /\ n.end_column = d.end_column
                      /\ n.attributes = d.attributes
             /\ Cardinality(edges' \ edges) = Len(kept)
             /\ Len(eids) = Len(kept)
             /\ \A k \in 1..Len(kept) :
                   LET e == EdgeOfId(edges', eids[k])
                       d == g.edges[kept[k]]
                   IN /\ e.source_id = ids[d.source_idx + 1]
                      /\ e.target_id = ids[d.target_idx + 1]
                      /\ e.edge_type = d.edge_type
                      /\ e.attributes = d.attributes]_vars

\* FragC, whose two edges are equal, was stored as the second new File of the
\* run: both edges are rows, from main to the call node, and its node ids
\* follow those of the first File
C21_Witness ==
    /\ IsStoreCall(ret)
    /\ ret.ok
    /\ ret.graph_data = FragC
    /\ now = 2
    /\ Cardinality(files) = 2
    /\ \E f \in files : f.id = ret.id /\ f.parsed_at = 2
    /\ Min(NodeIdsOfFile(nodes, ret.id)) > 1
    /\ \E a, b \in edges :
          /\ a.id # b.id
          /\ a.source_id = b.source_id /\ a.target_id = b.target_id
          /\ a.edge_type = "calls" /\ b.edge_type = "calls"
          /\ a.source_id \in NodeIdsOfFile(nodes, ret.id)
          /\ NodeOfId(nodes, a.source_id).name = "main"
          /\ NodeOfId(nodes, a.target_id).node_type = "call"

(***************************************************************************)
(* Properties of a store_file_graph whose statement fails                  *)
(***************************************************************************)
\* the fragment of the run with the fingerprint of File f
FragmentOf(f) == CHOOSE g \in FaultFragments : g.content_hash = f.content_hash

\* what is stored at ConcPath is a whole version of the file, or nothing
WholeOrAbsent ==
    /\ \A f \in get_file_by_path(DB, ConcProject, ConcPath) : HoldsFragment(f, FragmentOf(f))
    /\ \A n \in nodes : \E f \in files : f.id = n.file_id

\* C22: when a call of store_file_graph has returned an error, the File at
\* its (project, path), if there is one, has all the nodes and edges of the
\* version whose fingerprint it carries; and so has the File that a later
\* call has returned the id of.
C22_FailedStoreLeavesWholeFile ==
    wk[Builder].pc \in {"failed", "done"} => WholeOrAbsent

\* a call in which no statement failed leaves a whole version, whatever the
\* earlier calls left; and a call that returned an error without writing
\* leaves what it found
StoreWithoutFailureLeavesWholeFile ==
    [][/\ ( /\ wk[Builder].pc = "insert_edge"
            /\ wk'[Builder].pc = "done" )
          => \A f \in get_file_by_path(DB, ConcProject, ConcPath) :
                HoldsFragment(f, wk[Builder].graph_data)
       /\ ( /\ wk[Builder].pc = "get_file"
            /\ wk'[Builder].pc = "failed" )
          => <<projects, files, nodes, edges>>' = <<projects, files, nodes, edges>>]_vars

\* a call with FragA has returned its File as unchanged while the File has
\* fewer nodes than FragA: the call before it failed between two nodes
SkippedWhileIncomplete ==
    /\ wk[Builder].pc = "done"
    /\ wk[Builder].graph_data = FragA
    /\ wk[Builder].existing # {}
    /\ \E f \in wk[Builder].existing :
          /\ f.id = wk[Builder].id
          /\ f \in files
          /\ f.content_hash = FragA.content_hash
          /\ Cardinality(NodeIdsOfFile(nodes, f.id)) \in 1..2

(***************************************************************************)
(* Properties of find_definition and find_references                       *)
(***************************************************************************)
\* the node a call at a position has located is a node of the file of the
\* call that contains the position
Located(n) ==
    /\ n \in nodes
    /\ \E f \in files : /\ f.id = n.file_id
                        /\ f.project_id = ret.project_id
                        /\ f.path = ret.file_path
    /\ Contains(n, ret.line, ret.column)

\* d is the location of node n: the path of its File, its start, kind and name
LocationOf(d, n) ==
    /\ \E f \in files : f.id = n.file_id /\ d.file = f.path
    /\ d.line = n.start_line
    /\ d.column = n.start_column
    /\ d.node_type = n.node_type
    /\ d.name = n.name
    /\ d.qualified_name = n.qualified_name

\* C23: find_definition that has located a node returns found = true and one
\* definition: when the node has an outgoing references edge, the location
\* (file path, start line and column, kind, name) of the target of such an
\* edge, in whatever file it is; when it has none, the location of the node
\* itself, in the file of the call.
C23_DefinitionFollowsReference ==
    (ret.op = "find_definition" /\ ret.node # {})
    => \A n \in ret.node :
          LET out == {e \in edges : e.source_id = n.id /\ e.edge_type = "references"}
          IN /\ Located(n)
             /\ ret.ok
             /\ ret.result.found
             /\ Cardinality(ret.result.definition) = 1
             /\ \A d \in ret.result.definition :
                   IF out # {}
                   THEN \E e \in out, t \in nodes : t.id = e.target_id /\ LocationOf(d, t)
                   ELSE LocationOf(d, n) /\ d.file = ret.file_path

\* the reference to B in /a.java was located and the class B of /b.go returned
C23_Witness ==
    /\ ret.op = "find_definition"
    /\ ret.file_path = "/a.java"
    /\ \E n \in ret.node : n.node_type = "reference" /\ n.name = "B"
    /\ \E d \in ret.result.definition :
          d.file = "/b.go" /\ d.node_type = "class" /\ d.name = "B" /\ d.line = 1

\* a node with outgoing edges, none of them a references edge, was located
\* and its own location returned
C23_WitnessOwnLocation ==
    /\ ret.op = "find_definition"
    /\ \E n \in ret.node :
          /\ n.node_type = "class"
          /\ \E e \in edges : e.source_id = n.id
          /\ \E d \in ret.result.definition : d.name = n.name /\ d.line = n.start_line

\* C24: find_references succeeds with count equal to the length of its list;
\* when it has located a node, the list has one entry for each references
\* edge whose target is the node, the location of the source of that edge,
\* and no other entry (it is empty when there is no such edge); when it has
\* located no node the list is empty and count is 0.
C24_ReferencesAreIncomingEdges ==
    (ret.op = "find_references")
    => /\ ret.ok
       /\ ret.result.count = Len(ret.result.references)
       /\ (ret.node = {}) => (ret.result.count = 0 /\ ret.result.references = <<>>)
       /\ \A n \in ret.node :
             LET incoming == {e \in edges : e.target_id = n.id /\ e.edge_type = "references"}
             IN /\ Located(n)
                /\ Len(ret.result.references) = Cardinality(incoming)
                /\ \E q \in Orders(incoming) :
                      \A i \in DOMAIN q :
                         \E s \in nodes : /\ s.id = q[i].source_id
                                          /\ LocationOf(ret.result.references[i], s)

\* the class B of /b.go was located and the two references to it in /a.java
\* returned, at their two positions
C24_Witness ==
    /\ ret.op = "find_references"
    /\ ret.file_path = "/b.go"
    /\ \E n \in ret.node : n.node_type = "class" /\ n.name = "B"
    /\ ret.result.count = 2
    /\ \A i \in 1..2 : /\ ret.result.references[i].file = "/a.java"
                       /\ ret.result.references[i].node_type = "reference"
    /\ ret.result.references[1].line # ret.result.references[2].line

\* a node with no incoming references edge, itself the source of one, was
\* located and nothing returned
C24_WitnessNone ==
    /\ ret.op = "find_references"
    /\ \E n \in ret.node : \E e \in RefEdges(edges) : e.source_id = n.id
    /\ ret.result.count = 0
    /\ ret.result.references = <<>>

\* C25: in a run of parse_project a step calls build_cross_references only
\* when store_file_graph or the failure of parse_file has been logged for
\* every file of the batch, it writes no File or Node row, and it is the only
\* such step of the run; after it no step stores a file; and a run that
\* returns without an error from the database, the project, the walk or a
\* store has made the call.
C25_CrossReferencesOnceAfterStores ==
    [][/\ wk'.xrefs <= 1
       /\ (wk'.xrefs # wk.xrefs)
          => /\ wk.pc = "files"
             /\ Len(wk.log) = Len(wk.files)
             /\ \A k \in DOMAIN wk.files :
                   /\ wk.log[k][2] = wk.files[k][1]
                   /\ wk.log[k][1] \in {"stored", "parse_failed"}
             /\ files' = files
             /\ nodes' = nodes
             /\ wk'.pc = "done"
       /\ (wk.xrefs = 1)
          => /\ files' = files
             /\ nodes' = nodes
             /\ wk'.log = wk.log
             /\ wk'.xrefs = 1
       /\ ( /\ wk.pc # "done"
            /\ wk'.pc = "done"
            /\ wk.fault \notin {"open", "project", "walk", "store"} )
          => wk'.xrefs = 1]_vars

\* the run over the directory of six entries has returned Ok: four files
\* were collected, two of them stored, and the one call of
\* build_cross_references came after them
C25_Witness ==
    /\ Returned
    /\ wk.disk = MixedDisk
    /\ wk.result.ok
    /\ wk.xrefs = 1
    /\ Len(wk.files) = 4
    /\ Cardinality({k \in DOMAIN wk.log : wk.log[k][1] = "stored"}) = 2
    /\ Cardinality(files) = 2

(***************************************************************************)
(* Properties of collect_files                                             *)
(***************************************************************************)
\* path is the path of a file strictly below root
Below(root, path) ==
    /\ Len(path) > Len(root) + 1
    /\ SubSeq(path, 1, Len(root) + 1) = root \o "/"

\* a directory or file name on the path strictly below root starts with a dot
DotNameBelow(root, path) ==
    \E i \in (Len(root) + 1)..(Len(path) - 1) : SubSeq(path, i, i + 1) = "/."

\* the language an extension is registered to by LanguageRegistry::new
RegisteredTo(ext) ==
    {l.language_id : l \in {x \in {JavaLanguage, GoLanguage} :
                               \E i \in DOMAIN x.file_extensions :
                                  x.file_extensions[i] = "." \o ext}}

\* the pairs collect_files is to return for root and filter on the directory
Eligible(disk, root, filter_languages) ==
    {<<p, id>> \in (DOMAIN disk) \X {"java", "go"} :
        /\ Below(root, p)
        /\ ~ DotNameBelow(root, p)
        /\ \E ext \in extension(p) : id \in RegisteredTo(ext)
        /\ \A filters \in filter_languages : id \in filters}

\* C26: collect_files(root, filter) returns one pair (path, language id) for
\* each regular file below root that has no name starting with a dot on its
\* path strictly below root, whose extension is registered to the language,
\* and whose language id is in the filter when one is given, and no other
\* pair, whatever the name of root is.
C26_CollectsEligibleFiles ==
    (ret.op = "collect_files")
    => /\ ret.ok
       /\ SeqRange(ret.files) = Eligible(wk.disk, ret.root, ret.filter_languages)
       /\ Len(ret.files) = Cardinality(Eligible(wk.disk, ret.root, ret.filter_languages))

\* the same for a root whose own name does not start with a dot; for a root
\* whose name does, collect_files returns Ok with no file
CollectsEligibleFilesOfPlainRoot ==
    (ret.op = "collect_files")
    => /\ ret.ok
       /\ (~ is_hidden(ret.root))
          => /\ SeqRange(ret.files) = Eligible(wk.disk, ret.root, ret.filter_languages)
             /\ Len(ret.files) = Cardinality(Eligible(wk.disk, ret.root, ret.filter_languages))
       /\ is_hidden(ret.root) => ret.files = <<>>

\* the walk of /r1 returned its sources, among them the one of /r1/sub, and
\* none of the files with a dot name, on a directory that has them all
CollectedPlainRoot ==
    /\ ret.op = "collect_files"
    /\ ret.root = "/r1"
    /\ ret.filter_languages = {}
    /\ DOMAIN wk.disk = CollectPaths
    /\ SeqRange(ret.files) =
          {<<"/r1/Main.java", "java">>, <<"/r1/lib.go", "go">>, <<"/r1/sub/b.go", "go">>}

(***************************************************************************)
(* Properties of find_definition_by_symbol                                 *)
(***************************************************************************)
\* the nodes of a definition kind of the project of the call that are named
\* as the symbol of the call
DefinitionsNamed == 
    {n \in NodesOfProject(DB, ret.project_id) :
        n.node_type \in DefinitionTypes /\ n.name = ret.symbol}

\* those whose name is the symbol or whose qualified name is the symbol or
\* ends in a dot and the symbol
DefinitionsMatching ==
    {n \in NodesOfProject(DB, ret.project_id) :
        /\ n.node_type \in DefinitionTypes
        /\ \/ n.name = ret.symbol
           \/ /\ n.qualified_name # NoneStr
              /\ \/ n.qualified_name = ret.symbol
                 \/ \E k \in 1..Len(n.qualified_name) :
                       SubSeq(n.qualified_name, k, Len(n.qualified_name))
                          = "." \o ret.symbol}

\* what find_definition_by_symbol returns is as the claim has it
DefinitionBySymbolAsClaimed ==
    /\ ret.ok
    /\ (DefinitionsNamed # {})
       => /\ ret.result.found
          /\ \E d \in ret.result.definition :
                d.name = ret.symbol /\ d.node_type \in DefinitionTypes
    /\ (DefinitionsMatching = {}) => (~ ret.result.found /\ ret.result.definition = {})
    /\ \A d \in ret.result.definition : d.node_type \notin {"call", "reference"}

\* C27: find_definition_by_symbol(project, s) returns found = true with a
\* node of a definition kind named s whenever the project has such a node,
\* however many nodes of the project contain s in their name or qualified
\* name; it returns found = false when no node of a definition kind has the
\* name s or a qualified name that is s or ends in "." + s; and it never
\* returns a call or reference node.
C27_DefinitionBySymbol ==
    (ret.op = "find_definition_by_symbol") => DefinitionBySymbolAsClaimed

\* the same when the nodes of the project that the search matches are no
\* more than the rows it asks for
DefinitionBySymbolWithinLimit ==
    ( /\ ret.op = "find_definition_by_symbol"
      /\ Cardinality(SearchMatches(DB, ret.project_id, ret.symbol, {}))
            <= DefinitionSearchLimit )
    => DefinitionBySymbolAsClaimed

\* the function helper was found in a project in which a call and a
\* reference are named helper too
FoundAmongUsages ==
    /\ ret.op = "find_definition_by_symbol"
    /\ ret.symbol = "helper"
    /\ Len(ret.rows) = 3
    /\ ret.result.found
    /\ \E d \in ret.result.definition : d.node_type = "function" /\ d.file = "/b.go"


(***************************************************************************)
(* Properties of a store built from extractor fragments                    *)
(***************************************************************************)
OutgoingReferences(es, node_id) == {e \in RefEdges(es) : e.source_id = node_id}

\* C28: after every store_file_graph and build_cross_references call, run one
\* at a time on fragments of the Java and Go extractors, every node has at
\* most one outgoing references edge and the source of every references edge
\* is a node of kind reference; a store_file_graph call adds no references edge
C28_ReferencesEdgesFromReferenceNodes ==
    [][/\ \A n \in nodes' : Cardinality(OutgoingReferences(edges', n.id)) <= 1
       /\ \A e \in RefEdges(edges') :
             /\ \E n \in nodes' : n.id = e.source_id
             /\ NodeOfId(nodes', e.source_id).node_type = "reference"
       /\ IsStoreCall(ret') => RefEdges(edges') \subseteq RefEdges(edges)]_vars

\* build_cross_references has just linked a reference node of one file to a
\* definition of another and left a second reference node of that file
\* unlinked; every linked node has exactly one references edge
C28_Witness ==
    /\ IsXrefCall(ret) /\ ret.ok
    /\ RefEdges(edges) # {}
    /\ \E e \in RefEdges(edges) :
          NodeOfId(nodes, e.source_id).file_id # NodeOfId(nodes, e.target_id).file_id
    /\ \E n \in nodes : /\ n.node_type = "reference"
                        /\ OutgoingReferences(edges, n.id) = {}

\* a fragment of the Java extractor is stored: its reference node, named by
\* the text of the superclass clause, has no references edge after
\* build_cross_references
ExtractedReferenceStaysUnlinked ==
    /\ IsXrefCall(ret) /\ ret.ok
    /\ \E n \in nodes : /\ n.node_type = "reference"
                        /\ n.name = "extends Base"
                        /\ OutgoingReferences(edges, n.id) = {}

Callables == {"function", "method", "constructor"}

StartsNotBefore(a, b) ==
    \/ a.start_line > b.start_line
    \/ a.start_line = b.start_line /\ a.start_column >= b.start_column

EndsNotAfter(a, b) ==
    \/ a.end_line < b.end_line
    \/ a.end_line = b.end_line /\ a.end_column <= b.end_column

\* C29: in a store filled with what parse_file returns, every calls edge goes
\* from a node of kind function, method or constructor to a node of kind call
\* of the same file whose span lies inside the span of the source; so no
\* function, method or constructor has an incoming calls edge and no call node
\* an outgoing one
C29_CallsEdgesFromCallableToCallSite ==
    \A e \in edges : e.edge_type = "calls" =>
        /\ \E s \in nodes : s.id = e.source_id
        /\ \E t \in nodes : t.id = e.target_id
        /\ LET s == NodeOfId(nodes, e.source_id)
               t == NodeOfId(nodes, e.target_id)
           IN /\ s.node_type \in Callables
              /\ t.node_type = "call"
              /\ s.file_id = t.file_id
              /\ StartsNotBefore(t, s) /\ EndsNotAfter(t, s)

\* a Go file with a method calling two functions, one call inside the other,
\* and a call outside every function is stored: the method has both calls
\* edges, the call outside has none
C29_Witness ==
    /\ \E s \in nodes :
          /\ s.node_type = "method"
          /\ Cardinality({e \in edges : e.edge_type = "calls"
                                        /\ e.source_id = s.id}) = 2
    /\ \E t \in nodes :
          /\ t.node_type = "call"
          /\ ~ \E e \in edges : e.edge_type = "calls" /\ e.target_id = t.id
    /\ \E e \in edges : e.edge_type = "calls"
                        /\ NodeOfId(nodes, e.source_id).node_type = "constructor"


(***************************************************************************)
(* Properties of replacing a file that another file refers to              *)
(***************************************************************************)
\* the file row a successful store_file_graph step replaces, if any
ReplacedBy(r) ==
    {f \in files : /\ IsStoreCall(r) /\ r.ok
                   /\ r.project_id = f.project_id /\ r.file_path = f.path
                   /\ r.graph_data.content_hash # f.content_hash}

\* the step replacing file b deletes every references edge from another file
\* into b's nodes, leaves the rows of the other files and their other edges,
\* and the sources of the deleted edges are unresolved references afterwards
ReplaceUnlinks(b) ==
    LET oldIds == NodeIdsOfFile(nodes, b.id)
        into == {e \in RefEdges(edges) : e.target_id \in oldIds /\ e.source_id \notin oldIds}
    IN /\ into \cap edges' = {}
       /\ files \ {b} \subseteq files'
       /\ {n \in nodes : n.file_id # b.id} \subseteq nodes'
       /\ {e \in edges : e.source_id \notin oldIds /\ e.target_id \notin oldIds} \subseteq edges'
       /\ \A e \in into :
             NodeOfId(nodes, e.source_id) \in
                 get_unresolved_references([projects |-> projects', files |-> files',
                                            nodes |-> nodes', edges |-> edges'],
                                           b.project_id)

\* every references edge ends at a stored node
ReferencesEndAtStoredNodes(ns, es) ==
    \A e \in RefEdges(es) : \E n \in ns : n.id = e.target_id

\* after a build_cross_references that returned Ok, every stored reference
\* node that had lost its edge to a replacement and has a same-named node of
\* one of the kinds in its project is linked to such a node
RelinkedTo(kinds) ==
    (IsXrefCall(ret') /\ ret'.ok)
    => \A r \in nodes' :
          ( /\ r.id \in wk'.unlinked
            /\ \E d \in nodes' : d.name = r.name /\ d.node_type \in kinds )
          => \E e \in RefEdges(edges'), d \in nodes' :
                /\ e.source_id = r.id /\ e.target_id = d.id
                /\ d.name = r.name /\ d.node_type \in kinds

\* C30: replacing file B deletes the references edges of other files into
\* B's prior nodes and nothing else of those files, their sources are
\* unresolved again, the next build_cross_references links each of them to a
\* stored same-named definition node if there is one, and no references edge
\* ever ends at a node that is no longer stored
C30_ReplacedTargetsRelinked ==
    [][/\ \A b \in ReplacedBy(ret') : ReplaceUnlinks(b)
       /\ ReferencesEndAtStoredNodes(nodes', edges')
       /\ RelinkedTo(DefinitionTypes)]_vars

\* the same with the kinds find_definition_by_name asks for
ReplacedTargetsRelinkedWhenFound ==
    [][/\ \A b \in ReplacedBy(ret') : ReplaceUnlinks(b)
       /\ ReferencesEndAtStoredNodes(nodes', edges')
       /\ RelinkedTo(FindDefinitionTypes)]_vars

\* a reference node that lost its edge to a replacement is linked again, to
\* a node of the file's new content
RelinkedAfterReplace ==
    /\ IsXrefCall(ret) /\ ret.ok
    /\ \E e \in RefEdges(edges) :
          /\ e.source_id \in wk.unlinked
          /\ NodeOfId(nodes, e.target_id).file_id # NodeOfId(nodes, e.source_id).file_id

\* a reference node that lost its edge to a replacement stays unlinked after
\* build_cross_references although a field of its name is stored
UnlinkedBesideField ==
    /\ IsXrefCall(ret) /\ ret.ok
    /\ \E r \in nodes :
          /\ r.id \in wk.unlinked
          /\ OutgoingReferences(edges, r.id) = {}
          /\ \E d \in nodes : d.name = r.name /\ d.node_type = "field"

====
